---- MODULE Spec2Model ----
(***************************************************************************)
(* Model of the contour / feature-extraction pipeline of CytoCV:           *)
(*   - contour ranking          (contour_helper.get_largest)               *)
(*   - contour detection bundle (contour_operations.find_contours)         *)
(*   - contour merging          (contour_operations.merge_contour)         *)
(*   - GFP-dot classification   (GFPDot.calculate_statistics)              *)
(* A point is <<x, y>>, a contour a sequence of points, a contour list a   *)
(* sequence of contours.  Python indices are 0-based: contours[i] of the   *)
(* source is At(contours, i) here.                                         *)
(***************************************************************************)
EXTENDS Integers, Sequences, FiniteSets, TLC

\* ------------------------------------------------------------------ bounds
\* Longest contour list traced from a coarse mask / from a fine mask.
MaxContours == 3
MaxFine == 2
\* Longest list of red-dot contours and of green (GFP) contours in a bundle.
MaxDots == 2
MaxGreen == 3
\* Largest blur kernel size a caller asks for.
MaxKsize == 13
\* Most channels in the channel configuration read from a DV file.
MaxConfig == 2
\* Most plugin IDs in one selection.
MaxSelected == 3
MaxFiles == 2
\* The rate limiter's max_attempts and window_seconds, and the last second
\* of the time the model follows.
MaxAttempts == 3
WindowSeconds == 2
MaxTime == 6
\* Most segments in a requested media path.
MaxSegments == 4
\* Most UUIDs in one display_cell request, and the cells of a segmented image.
MaxUuids == 2
MaxCells == 2
\* The last second of the clock of the account views.
MaxClock == 1900

\* --------------------------------------------------------- program constants
DotAreaMax == 100
Dapi3AreaMin == 100
Dapi3AreaMax == 1000
InitialSmallestDistance == 999999999
prox_radius == 13
DefaultGfpDistance == 37
BetweenEps == 50
CategoryNone == 4
EXPECTED_LAYER_COUNT == 4
MinTtl == 60

VARIABLES
    pc,          \* position of the contour pipeline: "start", "found", "merged"
    bundle,      \* the ContourBundle returned by find_contours
    merge_key,   \* the raw-list key handed to merge_contour
    merged,      \* the value returned by merge_contour
    gpc,         \* GFP-dot plugin: "idle", or "returned" from a call
    cp,          \* the CellStatistics record the plugin writes
    cp_before,   \* cp as it was when the last call began
    args,        \* the arguments of the last call
    path,        \* how the last call ended (see calculate_statistics)
    circles,     \* the centers of the circles the last call drew
    call,        \* the last call of a function of the library: its name and arguments
    result,      \* what that call returned
    now,         \* int(time.time())
    cache,       \* the Django cache: the rate-limit state of each key
    cache_before,\* cache as it was when the last rate-limit call began
    rl,          \* the last rate-limit call: its name, arguments and return value
    hist,        \* for each key, the locks and failures so far (see LockoutRegister)
    cell_stats,  \* the CellStatistics rows: pairs of image UUID and cell_id
    cell_stats_before, \* cell_stats as it was when the last display_cell began
    display,     \* the last display_cell: its requester and the status answered
    progress,    \* the phase in the progress file of the run's key ("idle": no file)
    cancel_flag, \* whether the cancel file of the key exists
    run,         \* the pre_process_step POST: its position and local variables
    canc,        \* the cancel_progress request: its position and local variables
    clock,       \* int(timezone.now().timestamp())
    users,       \* the accounts: the password of each e-mail
    session,     \* request.session: the keys of the password recovery
    recovery,    \* the recovery so far: codes mailed, proof held, last request
    signup_session, \* request.session: the keys of the signup
    registration \* the signup so far: codes mailed, proof held, last request

contour_vars == <<pc, bundle, merge_key, merged>>
gfp_vars == <<gpc, cp, cp_before, args, path, circles>>
call_vars == <<call, result>>
pipeline_vars == <<contour_vars, gfp_vars, call_vars>>
rl_vars == <<now, cache, cache_before, rl, hist>>
display_vars == <<cell_stats, cell_stats_before, display>>
progress_vars == <<progress, cancel_flag, run, canc>>
account_vars == <<clock, users>>
recovery_vars == <<session, recovery>>
signup_vars == <<signup_session, registration>>
account_views == <<account_vars, recovery_vars, signup_vars>>
web_vars == <<rl_vars, display_vars, progress_vars, account_views>>
outside_rl == <<pipeline_vars, display_vars, progress_vars, account_views>>
outside_display == <<pipeline_vars, rl_vars, progress_vars, account_views>>
outside_progress == <<pipeline_vars, rl_vars, display_vars, account_views>>
outside_recovery == <<pipeline_vars, rl_vars, display_vars, progress_vars, signup_vars>>
outside_signup == <<pipeline_vars, rl_vars, display_vars, progress_vars, recovery_vars>>
vars == <<pipeline_vars, web_vars>>

\* ------------------------------------------------------------ sequences
At(s, i) == s[i + 1]

RECURSIVE SeqsUpTo(_, _)
SeqsUpTo(S, n) ==
    IF n = 0 THEN {<<>>}
    ELSE LET shorter == SeqsUpTo(S, n - 1)
         IN  shorter \cup {Append(s, x) : s \in {t \in shorter : Len(t) = n - 1}, x \in S}

Abs(n) == IF n < 0 THEN -n ELSE n

\* ------------------------------------------------------- traced contours
\* A one-pixel-wide "V" edge: the boundary trace goes out and comes back
\* through the apex, which therefore occurs twice.
Vee == << <<0, 0>>, <<2, 2>>, <<4, 0>>, <<2, 2>> >>
\* A one-pixel-wide vertical edge just above the apex of Vee.
Seg == << <<2, 6>>, <<2, 3>> >>
\* An 11 x 11 closed outline (area 121) and a 32 x 32 one (area 1024).
Box11 == << <<10, 10>>, <<21, 10>>, <<21, 21>>, <<10, 21>> >>
Box32 == << <<0, 0>>, <<32, 0>>, <<32, 32>>, <<0, 32>> >>

Shapes == {Vee, Seg, Box11, Box32}

\* The contour lists of up to n contours: one mask never yields the same
\* contour twice.
ContourLists(n) ==
    {l \in SeqsUpTo(Shapes, n) : \A i, j \in 1..Len(l) : i # j => l[i] # l[j]}

\* cv2.contourArea, doubled so that it stays an integer: |sum of cross
\* products of consecutive points| (the shoelace formula, closed polygon).
contourArea2(c) ==
    LET n == Len(c)
        prev(i) == IF i = 1 THEN c[n] ELSE c[i - 1]
        term(i) == prev(i)[1] * c[i][2] - prev(i)[2] * c[i][1]
        RECURSIVE Sum(_)
        Sum(i) == IF i > n THEN 0 ELSE term(i) + Sum(i + 1)
    IN  IF n = 0 THEN 0 ELSE Abs(Sum(1))

\* ------------------------------------------------------------ get_largest
\* ranked.sort(key=area, reverse=True): a stable sort, equal areas keep
\* their order.  Each item is <<index, area2>>.
SortStableDesc(ranked) ==
    LET insert(sorted, item) ==
            LET pos == Cardinality({j \in 1..Len(sorted) : sorted[j][2] >= item[2]})
            IN  SubSeq(sorted, 1, pos) \o <<item>> \o SubSeq(sorted, pos + 1, Len(sorted))
        RECURSIVE Go(_, _)
        Go(k, acc) == IF k > Len(ranked) THEN acc ELSE Go(k + 1, insert(acc, ranked[k]))
    IN  Go(1, <<>>)

\* The same sort done as "ascending, then reversed": equal areas come out
\* in reverse detection order.
get_largest_unstable(contours) ==
    LET idx == SelectSeq([k \in 1..Len(contours) |-> k - 1],
                         LAMBDA i : Len(At(contours, i)) # 0)
        ranked == [k \in 1..Len(idx) |-> <<idx[k], contourArea2(At(contours, idx[k]))>>]
        rev(s) == [k \in 1..Len(s) |-> s[Len(s) + 1 - k]]
        sorted == SortStableDesc(rev(ranked))
        top == SubSeq(sorted, 1, IF Len(sorted) < 2 THEN Len(sorted) ELSE 2)
    IN  [k \in 1..Len(top) |-> top[k][1]]

\* enumerate(contours, start=1): the indices are one too high.
get_largest_one_based(contours) ==
    LET idx == SelectSeq([k \in 1..Len(contours) |-> k],
                         LAMBDA i : Len(contours[i]) # 0)
        ranked == [k \in 1..Len(idx) |-> <<idx[k], contourArea2(contours[idx[k]])>>]
        sorted == SortStableDesc(ranked)
        top == SubSeq(sorted, 1, IF Len(sorted) < 2 THEN Len(sorted) ELSE 2)
    IN  [k \in 1..Len(top) |-> top[k][1]]

get_largest(contours) ==
    LET idx == SelectSeq([k \in 1..Len(contours) |-> k - 1],
                         LAMBDA i : Len(At(contours, i)) # 0)
        ranked == [k \in 1..Len(idx) |-> <<idx[k], contourArea2(At(contours, idx[k]))>>]
        sorted == SortStableDesc(ranked)
        top == SubSeq(sorted, 1, IF Len(sorted) < 2 THEN Len(sorted) ELSE 2)
    IN  [k \in 1..Len(top) |-> top[k][1]]

\* ---------------------------------------------------------- find_contours
\* The derivative keys a GrayImageSet can hold: the preprocessor writes the
\* keys of a channel together.
Channels == {"mCherry", "DAPI", "GFP"}
KeysOf(chs) ==
    (IF "mCherry" \in chs THEN {"gray_mcherry_3", "gray_mcherry"} ELSE {})
    \cup (IF "DAPI" \in chs THEN {"gray_dapi_3", "gray_dapi"} ELSE {})
    \cup (IF "GFP" \in chs THEN {"GFP", "GFP_no_bg"} ELSE {})

\* The binary masks find_contours traces, and the contour list cv2.findContours
\* returns for each (an input of the model: it depends on the pixels).
CoarseMasks == {"thresh", "thresh_dapi"}
FineMasks == {"bright_thresh", "thresh_mcherry", "thresh_dapi_3", "thresh_gfp"}
Masks == CoarseMasks \cup FineMasks
Detections ==
    { [m \in Masks |-> IF m \in CoarseMasks THEN l1 ELSE l2] :
        l1 \in ContourLists(MaxContours), l2 \in ContourLists(MaxFine) }

\* [cnt for cnt in cs if keep(cnt)]
Filter(cs, keep(_)) == SelectSeq(cs, keep)

find_contours(keys, det) ==
    LET has(k) == k \in keys
        dot_contours ==
            IF has("gray_mcherry_3")
            THEN Filter(det["bright_thresh"], LAMBDA c : contourArea2(c) < 2 * DotAreaMax)
            ELSE <<>>
        boundary == has("gray_mcherry_3") /\ has("gray_mcherry")
        contours == IF boundary THEN det["thresh"] ELSE <<>>
        contours_mcherry == IF boundary THEN det["thresh_mcherry"] ELSE <<>>
        nucleus == has("gray_dapi_3") /\ has("gray_dapi")
        contours_dapi == IF nucleus THEN det["thresh_dapi"] ELSE <<>>
        contours_dapi_3 ==
            IF nucleus
            THEN Filter(det["thresh_dapi_3"],
                        LAMBDA c : /\ contourArea2(c) > 2 * Dapi3AreaMin
                                   /\ contourArea2(c) < 2 * Dapi3AreaMax)
            ELSE <<>>
        contours_gfp == IF has("GFP") THEN det["thresh_gfp"] ELSE <<>>
    IN  [ bestContours         |-> IF boundary THEN get_largest(contours) ELSE <<>>,
          bestContours_mcherry |-> IF boundary THEN get_largest(contours_mcherry) ELSE <<>>,
          contours             |-> contours,
          contours_mcherry     |-> contours_mcherry,
          contours_dapi        |-> contours_dapi,
          contours_dapi_3      |-> contours_dapi_3,
          bestContours_dapi    |-> IF nucleus THEN get_largest(contours_dapi) ELSE <<>>,
          bestContours_dapi_3  |-> IF nucleus /\ contours_dapi_3 # <<>>
                                   THEN get_largest(contours_dapi_3) ELSE <<>>,
          dot_contours         |-> dot_contours,
          contours_gfp         |-> contours_gfp ]

EmptyBundle == find_contours({}, [m \in Masks |-> <<>>])

\* What a call gives back: an exception that leaves it, or a value.
Raised == [raised |-> TRUE]
Returned(v) == [raised |-> FALSE, value |-> v]

\* ------------------------------------- find_contours of the yeastweb package
MCHERRY_DOT_METHOD_CURRENT == "current"
MCHERRY_DOT_METHOD_LEGACY == "legacy"
\* The values a caller passes for mcherry_dot_method: nothing (None or ""),
\* the two names, a name with a blank and a capital, an unknown name.
MethodInputs == {"", "current", "legacy", " Legacy", "otsu"}
\* str(method).strip().lower()
StripLower(method) == IF method = " Legacy" THEN "legacy" ELSE method
normalize_mcherry_dot_method(method) ==
    IF method = "" THEN MCHERRY_DOT_METHOD_CURRENT
    ELSE IF StripLower(method) \in {MCHERRY_DOT_METHOD_CURRENT, MCHERRY_DOT_METHOD_LEGACY}
         THEN StripLower(method)
         ELSE MCHERRY_DOT_METHOD_CURRENT

\* [cnt for cnt in dot_contours if cv2.contourArea(cnt) < 100]
extract_dot_contours(traced) == Filter(traced, LAMBDA c : contourArea2(c) < 2 * DotAreaMax)

\* Both methods hand every derivative they read to OpenCV (cv2.threshold,
\* cv2.Canny) without a test: one that is absent makes the call raise.  The
\* threshold diagnostics of the returned dict (numbers computed from the
\* pixels) are left out.
find_contours_yeastweb(keys, det, mcherry_dot_method) ==
    LET method == normalize_mcherry_dot_method(mcherry_dot_method)
        legacy == method = MCHERRY_DOT_METHOD_LEGACY
        contours == det["thresh"]
        contours_mcherry == det["thresh_mcherry"]
        contours_dapi == det["thresh_dapi"]
        contours_dapi_3 ==
            IF legacy THEN det["thresh_dapi_3"]
            ELSE Filter(det["thresh_dapi_3"],
                        LAMBDA c : /\ contourArea2(c) > 2 * Dapi3AreaMin
                                   /\ contourArea2(c) < 2 * Dapi3AreaMax)
        bestContours_mcherry == get_largest(contours_mcherry)
        chosen == SelectSeq(bestContours_mcherry, LAMBDA i : i < Len(contours_mcherry))
        dot_contours ==
            IF legacy
            THEN IF bestContours_mcherry # <<>>
                 THEN [k \in 1..Len(chosen) |-> At(contours_mcherry, chosen[k])]
                 ELSE extract_dot_contours(det["thresh_mcherry"])
            ELSE extract_dot_contours(det["bright_thresh"])
    IN  IF ~({"gray_mcherry_3", "gray_mcherry", "gray_dapi_3", "gray_dapi", "GFP"} \subseteq keys)
        THEN Raised
        ELSE Returned(
             [ bestContours         |-> get_largest(contours),
               bestContours_mcherry |-> bestContours_mcherry,
               contours             |-> contours,
               contours_mcherry     |-> contours_mcherry,
               contours_dapi        |-> contours_dapi,
               contours_dapi_3      |-> contours_dapi_3,
               bestContours_dapi    |-> get_largest(contours_dapi),
               bestContours_dapi_3  |-> IF contours_dapi_3 # <<>>
                                        THEN get_largest(contours_dapi_3) ELSE <<>>,
               dot_contours         |-> dot_contours,
               contours_gfp         |-> det["thresh_gfp"],
               mcherry_dot_method   |-> method ])

\* find_contours of either package on a GrayImageSet with the given keys.
Packages == {"cytocv", "yeastweb"}
find_contours_of(package, keys, det, mcherry_dot_method) ==
    IF package = "cytocv" THEN Returned(find_contours(keys, det))
    ELSE find_contours_yeastweb(keys, det, mcherry_dot_method)

\* ---------------------------------------------------------- merge_contour
\* Squared Euclidean distance; math.sqrt is strictly increasing on the
\* integers that occur, so distances are compared by their squares.
Dist2(p, q) == (p[1] - q[1]) * (p[1] - q[1]) + (p[2] - q[2]) * (p[2] - q[2])

NoPair == [found |-> FALSE, pt1 |-> <<-1, -1>>, pt2 |-> <<-1, -1>>, i |-> -1]

\* "d < smallest_distance" on squared distances.  smallest2 is the square of
\* smallest_distance, or Unset while smallest_distance still holds its
\* initial value 999999999 (whose square is not computed: d < s is decided
\* as d*d div s < s).
Unset == -1
Closer(d2, smallest2) ==
    IF smallest2 = Unset
    THEN d2 \div InitialSmallestDistance < InitialSmallestDistance
    ELSE d2 < smallest2

\* The scan without "smallest_distance = d": the distance to beat stays at
\* its initial value, so every pair replaces the one before.
closest_pair_stale_distance(c1, c2) ==
    LET n2 == Len(c2)
        RECURSIVE Scan(_, _, _)
        Scan(k, smallest, pair) ==
            IF n2 = 0 \/ k >= Len(c1) * n2 THEN pair
            ELSE LET pt1 == At(c1, k \div n2)
                     i   == k % n2
                     pt2 == At(c2, i)
                     d   == Dist2(pt1, pt2)
                 IN  IF Closer(d, smallest)
                     THEN Scan(k + 1, smallest, [found |-> TRUE, pt1 |-> pt1, pt2 |-> pt2, i |-> i])
                     ELSE Scan(k + 1, smallest, pair)
    IN  Scan(0, Unset, NoPair)

\* The nested loops of lines 140-154: every pair (pt1, pt2) in order, the
\* first pair of strictly smallest distance is kept.  (The second-smallest
\* pair the loops also track is never read afterwards.)
closest_pair(c1, c2) ==
    LET n2 == Len(c2)
        RECURSIVE Scan(_, _, _)
        Scan(k, smallest, pair) ==
            IF n2 = 0 \/ k >= Len(c1) * n2 THEN pair
            ELSE LET pt1 == At(c1, k \div n2)
                     i   == k % n2
                     pt2 == At(c2, i)
                     d   == Dist2(pt1, pt2)
                 IN  IF Closer(d, smallest)
                     THEN Scan(k + 1, d, [found |-> TRUE, pt1 |-> pt1, pt2 |-> pt2, i |-> i])
                     ELSE Scan(k + 1, smallest, pair)
    IN  Scan(0, Unset, NoPair)

\* The while loop of lines 163-173: c2 from start_loc round to finish_loc.
walk_c2(c2, start_loc) ==
    LET finish_loc == IF start_loc = 0 THEN Len(c2) - 1 ELSE start_loc - 1
        RECURSIVE W(_, _)
        W(current_loc, acc) ==
            IF current_loc = finish_loc THEN Append(acc, At(c2, finish_loc))
            ELSE W(IF current_loc + 1 >= Len(c2) THEN 0 ELSE current_loc + 1,
                   Append(acc, At(c2, current_loc)))
    IN  W(start_loc, <<>>)

None == [none |-> TRUE, pts |-> <<>>]
Some(c) == [none |-> FALSE, pts |-> c]

\* merge_contour without its one-contour branch.
merge_contour_no_single(bestContours, contours) ==
    IF Len(bestContours) = 2
    THEN LET c1 == At(contours, bestContours[1])
             c2 == At(contours, bestContours[2])
             smallest_pair == closest_pair(c1, c2)
             RECURSIVE Go(_, _)
             Go(a, acc) ==
                 IF a > Len(c1) THEN acc
                 ELSE Go(a + 1,
                         IF c1[a] # smallest_pair.pt1 THEN Append(acc, c1[a])
                         ELSE Append(acc, c1[a]) \o walk_c2(c2, smallest_pair.i))
         IN  Some(Go(1, <<>>))
    ELSE None

merge_contour(bestContours, contours) ==
    IF Len(bestContours) = 2
    THEN LET c1 == At(contours, bestContours[1])
             c2 == At(contours, bestContours[2])
             smallest_pair == closest_pair(c1, c2)
             RECURSIVE Go(_, _)
             Go(a, acc) ==
                 IF a > Len(c1) THEN acc
                 ELSE Go(a + 1,
                         IF c1[a] # smallest_pair.pt1 THEN Append(acc, c1[a])
                         ELSE Append(acc, c1[a]) \o walk_c2(c2, smallest_pair.i))
         IN  Some(Go(1, <<>>))
    ELSE IF Len(bestContours) = 1
    THEN Some(At(contours, bestContours[1]))
    ELSE None

\* The raw list merge_contour is given, and the shortlist that goes with it.
MergeKeys == {"contours", "contours_mcherry", "contours_dapi", "contours_dapi_3"}
BestKey(key) ==
    CASE key = "contours" -> "bestContours"
      [] key = "contours_mcherry" -> "bestContours_mcherry"
      [] key = "contours_dapi" -> "bestContours_dapi"
      [] key = "contours_dapi_3" -> "bestContours_dapi_3"

\* ------------------------------------------------ preprocess_image_to_gray
\* The raw channels a caller can put in the images mapping: the four of the
\* microscope and one the preprocessor does not know.
InputChannels == {"mCherry", "GFP", "DAPI", "DIC", "Cy5"}
KsizeInputs == 1..MaxKsize
KdevInputs == {1, 5}

\* Lines 52-54 with ksize unchanged.
odd_ksize_unchanged(ksize) == ksize

\* Lines 52-54: ksize must be odd.
odd_ksize(ksize) == IF ksize % 2 = 0 THEN ksize + 1 ELSE ksize

\* A derivative: the channel it is computed from and what was applied to
\* its grayscale copy, a Gaussian blur (kernel size, deviation) or the
\* rolling-ball background subtraction.
Blurred(channel, k, dev) == [from |-> channel, op |-> "GaussianBlur", ksize |-> k, kdev |-> dev]
NoBackground(channel) == [from |-> channel, op |-> "rolling_ball", ksize |-> 0, kdev |-> 0]

\* A fluorescence channel giving its fine derivative only.
derivatives_fine_only(channel, ksize, kdev) ==
    CASE channel = "GFP" -> [key \in {"GFP"} |-> Blurred("GFP", 3, 1)]
      [] channel = "mCherry" -> [key \in {"gray_mcherry_3"} |-> Blurred("mCherry", 3, 1)]
      [] channel = "DAPI" -> [key \in {"gray_dapi_3"} |-> Blurred("DAPI", 3, 1)]
      [] OTHER -> <<>>

\* Lines 58-84: the entries of gray_payload written for one channel of the
\* mapping (none for a channel the function does not read).
derivatives(channel, ksize, kdev) ==
    CASE channel = "GFP" ->
             [key \in {"GFP", "GFP_no_bg"} |->
                 IF key = "GFP" THEN Blurred("GFP", 3, 1) ELSE NoBackground("GFP")]
      [] channel = "mCherry" ->
             [key \in {"gray_mcherry_3", "gray_mcherry"} |->
                 IF key = "gray_mcherry_3" THEN Blurred("mCherry", 3, 1)
                 ELSE Blurred("mCherry", ksize, kdev)]
      [] channel = "DAPI" ->
             [key \in {"gray_dapi_3", "gray_dapi"} |->
                 IF key = "gray_dapi_3" THEN Blurred("DAPI", 3, 1)
                 ELSE Blurred("DAPI", ksize, kdev)]
      [] OTHER -> <<>>

\* images is the set of channels in the mapping; the value is the GrayImage
\* as the mapping derivative key -> derivative.
preprocess_image_to_gray(images, kdev, ksize) ==
    LET k == odd_ksize(ksize)
        written(channel) == derivatives(channel, k, kdev)
        keys == UNION {DOMAIN written(channel) : channel \in images}
    IN  Returned([key \in keys |->
                     LET channel == CHOOSE c \in images : key \in DOMAIN written(c)
                     IN  written(channel)[key]])

\* ------------------------------------------------------ get_contour_center
\* cv2.moments of a contour (Green's formula over the closed polygon),
\* before the scaling by 1/2 and 1/6: a00 is twice the signed area.
moments(c) ==
    LET n == Len(c)
        prev(i) == IF i = 1 THEN c[n] ELSE c[i - 1]
        dxy(i) == prev(i)[1] * c[i][2] - c[i][1] * prev(i)[2]
        RECURSIVE Sum(_, _)
        Sum(i, m) ==
            IF i > n THEN m
            ELSE LET p == prev(i)
                     q == c[i]
                     d == p[1] * q[2] - q[1] * p[2]
                 IN  Sum(i + 1, [a00 |-> m.a00 + d,
                                 a10 |-> m.a10 + d * (p[1] + q[1]),
                                 a01 |-> m.a01 + d * (p[2] + q[2])])
    IN  Sum(1, [a00 |-> 0, a10 |-> 0, a01 |-> 0])

\* int(a / b): the quotient cut towards zero.
IntQuot(a, b) ==
    IF (a >= 0) = (b > 0) THEN Abs(a) \div Abs(b) ELSE -(Abs(a) \div Abs(b))

\* The dict {i: (x, y)} of the contours whose m00 is not zero:
\* x = int(m10 / m00) with m10 = a10 / 6 and m00 = a00 / 2.
center_of(m) == <<IntQuot(m.a10, 3 * m.a00), IntQuot(m.a01, 3 * m.a00)>>
get_contour_center(contour_list) ==
    LET ms == [k \in 1..Len(contour_list) |-> moments(contour_list[k])]
    IN  [i \in {j \in 0..(Len(contour_list) - 1) : ms[j + 1].a00 # 0} |-> center_of(ms[i + 1])]

\* dict.values(): the centers in index order.
Values(centers, n) ==
    LET idx == SelectSeq([k \in 1..n |-> k - 1], LAMBDA i : i \in DOMAIN centers)
    IN  [k \in 1..Len(idx) |-> centers[idx[k]]]

\* ---------------------------------------------------------------- GFPDot
\* The squared lengths n for which the double math.dist(e1, e2) *
\* math.dist(e1, e2) is below n (IEEE-754 binary64, round to nearest): all
\* such n up to 64, and those of the red-center pairs used below.  For
\* every other n that occurs the product is n or above, and it is always
\* within 1 of n.
SquaredDistBelow == {13, 18, 26, 29, 37, 52, 61, 2441, 2561}

\* "dot > squared_dist" for the integer dot and the double squared_dist.
ExceedsSquaredDist(dot, n) == dot > n \/ (dot = n /\ n \in SquaredDistBelow)

point_is_between(point, endpoint1, endpoint2, eps) ==
    LET cross == (point[2] - endpoint1[2]) * (endpoint2[1] - endpoint1[1])
                 - (point[1] - endpoint1[1]) * (endpoint2[2] - endpoint1[2])
        dot == (point[1] - endpoint1[1]) * (endpoint2[1] - endpoint1[1])
               + (point[2] - endpoint1[2]) * (endpoint2[2] - endpoint1[2])
    IN  IF Abs(cross) > eps THEN FALSE
        ELSE ~(dot < 0 \/ ExceedsSquaredDist(dot, Dist2(endpoint1, endpoint2)))

\* Lines 62-70: the green centers within prox_radius of one red center
\* (math.dist(c, g) <= 13 holds exactly when the squared distance is <= 169).
num_signals(center, green_centers) ==
    Cardinality({k \in 1..Len(green_centers) :
                    Dist2(center, green_centers[k]) <= prox_radius * prox_radius})

\* The first rule with "==" for ">=" (one green dot with each red dot).
categorize_exactly_one(n0, n1) ==
    IF n0 = 1 /\ n1 = 1 THEN 1
    ELSE IF (n0 = 1 /\ n1 = 0) \/ (n0 = 0 /\ n1 = 1) THEN 2
    ELSE IF (n0 = 2 /\ n1 = 0) \/ (n0 = 0 /\ n1 = 2) THEN 3
    ELSE CategoryNone

\* Lines 73-80.
categorize(n0, n1) ==
    IF n0 >= 1 /\ n1 >= 1 THEN 1
    ELSE IF (n0 = 1 /\ n1 = 0) \/ (n0 = 0 /\ n1 = 1) THEN 2
    ELSE IF (n0 = 2 /\ n1 = 0) \/ (n0 = 0 /\ n1 = 2) THEN 3
    ELSE CategoryNone

\* Lines 82-93.
num_between(centers, green_centers) ==
    Cardinality({k \in 1..Len(green_centers) :
                    point_is_between(green_centers[k], centers[0], centers[1], BetweenEps)})

\* The count itself for the status (no cap at 2).
biorientation_count(n) == n

biorientation_status(n) == IF n = 1 THEN 1 ELSE IF n > 1 THEN 2 ELSE 0

\* gfp_distance as the caller passes it: a number, or a value that is not
\* one (the text of the POST field, stored unparsed in the session).
Number(v) == [num |-> TRUE, val |-> v]
NotANumber == [num |-> FALSE, val |-> 0]

\* Branch B clearing the category as well as writing biorientation.
try_block_clears_category(rec, a, gfp_distance, centers, green_centers) ==
    LET caught == [cp |-> [category_GFP_dot |-> CategoryNone, biorientation |-> 0],
                   path |-> "caught", circles |-> <<>>]
    IN  IF ~({0, 1} \subseteq DOMAIN centers) THEN caught
        ELSE IF Dist2(centers[0], centers[1]) > gfp_distance * gfp_distance
        THEN IF Len(green_centers) > 0 /\ ~a.image_ok THEN caught
             ELSE [cp |-> [rec EXCEPT !.category_GFP_dot =
                              categorize(num_signals(centers[0], green_centers),
                                         num_signals(centers[1], green_centers))],
                   path |-> "A",
                   circles |-> [k \in 1..(2 * Len(green_centers)) |->
                                   centers[(k - 1) \div Len(green_centers)]]]
        ELSE [cp |-> [category_GFP_dot |-> CategoryNone,
                      biorientation |->
                          biorientation_status(num_between(centers, green_centers))],
              path |-> "B",
              circles |-> <<>>]

\* The call on record rec with arguments a (contours_data as has_key,
\* dot_contours, contours_gfp; green_image as image_ok: whether cv2.circle
\* can draw on it).  path tells how the call ended:
\*   "raised"  an exception left the method (lines 39-45, outside the try)
\*   "skipped" fewer than two red dots: nothing is written
\*   "caught"  an exception inside the try: category 4, biorientation 0
\*   "A", "B"  the branch that ran to its end
try_block(rec, a, gfp_distance, centers, green_centers) ==
    LET caught == [cp |-> [category_GFP_dot |-> CategoryNone, biorientation |-> 0],
                   path |-> "caught", circles |-> <<>>]
    IN  IF ~({0, 1} \subseteq DOMAIN centers) THEN caught
        ELSE IF Dist2(centers[0], centers[1]) > gfp_distance * gfp_distance
        THEN IF Len(green_centers) > 0 /\ ~a.image_ok THEN caught
             ELSE [cp |-> [rec EXCEPT !.category_GFP_dot =
                              categorize(num_signals(centers[0], green_centers),
                                         num_signals(centers[1], green_centers))],
                   path |-> "A",
                   circles |-> [k \in 1..(2 * Len(green_centers)) |->
                                   centers[(k - 1) \div Len(green_centers)]]]
        ELSE [cp |-> [rec EXCEPT !.biorientation =
                         biorientation_status(num_between(centers, green_centers))],
              path |-> "B",
              circles |-> <<>>]

\* A negative gfp_distance replaced by 60 instead of 37.
calculate_statistics_default_60(rec, a) ==
    LET raised == [cp |-> rec, path |-> "raised", circles |-> <<>>]
    IN  IF ~a.gfp_distance.num THEN raised
        ELSE IF ~a.has_key THEN raised
        ELSE IF ~(Len(a.dot_contours) > 1)
        THEN [cp |-> rec, path |-> "skipped", circles |-> <<>>]
        ELSE try_block(rec, a,
                       IF a.gfp_distance.val >= 0 THEN a.gfp_distance.val ELSE 60,
                       get_contour_center(<<a.dot_contours[1], a.dot_contours[2]>>),
                       Values(get_contour_center(a.contours_gfp), Len(a.contours_gfp)))

calculate_statistics(rec, a) ==
    LET raised == [cp |-> rec, path |-> "raised", circles |-> <<>>]
    IN  IF ~a.gfp_distance.num THEN raised
        ELSE IF ~a.has_key THEN raised
        ELSE IF ~(Len(a.dot_contours) > 1)
        THEN [cp |-> rec, path |-> "skipped", circles |-> <<>>]
        ELSE try_block(rec, a,
                       IF a.gfp_distance.val >= 0 THEN a.gfp_distance.val
                       ELSE DefaultGfpDistance,
                       get_contour_center(<<a.dot_contours[1], a.dot_contours[2]>>),
                       Values(get_contour_center(a.contours_gfp), Len(a.contours_gfp)))

\* ------------------------------------------------- red and green contours
Tri(x, y) == << <<x, y>>, <<x + 4, y>>, <<x, y + 4>> >>
Box2(cx, cy) == << <<cx - 1, cy - 1>>, <<cx + 1, cy - 1>>, <<cx + 1, cy + 1>>, <<cx - 1, cy + 1>> >>
\* Red dots: centers (11, 11) and (51, 42), and a single pixel (m00 = 0).
RedA == Tri(10, 10)
RedB == Box2(51, 42)
RedZ == << <<30, 30>> >>
RedShapes == {RedA, RedB, RedZ}
\* Green dots: on red center B; beyond B on the line A-B, near B only; on
\* the line between A and B (cross product 50), near neither; near A only,
\* off the line; a single pixel (m00 = 0).
GreenPalette == << Box2(51, 42), Box2(55, 45), Box2(21, 20), Box2(19, 3), << <<40, 5>> >> >>
\* The green lists up to MaxGreen contours, up to their order (the
\* classifier counts green centers).
GreenLists ==
    { [k \in 1..Len(f) |-> GreenPalette[f[k]]] :
        f \in {s \in SeqsUpTo(1..Len(GreenPalette), MaxGreen) :
                  \A k \in 1..(Len(s) - 1) : s[k] <= s[k + 1]} }
GfpDistances == {Number(-1), Number(0), Number(37), Number(60), NotANumber}

\* The red-dot lists up to MaxDots contours.  The classifier reads
\* dot_contours[0] and dot_contours[1] and the length of the list: the
\* entries after the second are the single pixel.
DotLists == {d \in SeqsUpTo(RedShapes, MaxDots) : \A k \in 3..Len(d) : d[k] = RedZ}

CallArgs ==
    { [has_key |-> TRUE, dot_contours |-> d, contours_gfp |-> g,
       gfp_distance |-> dist, image_ok |-> ok] :
        d \in DotLists, g \in GreenLists,
        dist \in GfpDistances, ok \in BOOLEAN }
    \cup
    { [has_key |-> FALSE, dot_contours |-> <<>>, contours_gfp |-> g,
       gfp_distance |-> dist, image_ok |-> ok] :
        g \in GreenLists, dist \in GfpDistances, ok \in BOOLEAN }

NoArgs == [has_key |-> TRUE, dot_contours |-> <<>>, contours_gfp |-> <<>>,
           gfp_distance |-> Number(DefaultGfpDistance), image_ok |-> TRUE]
DefaultRecord == [category_GFP_dot |-> CategoryNone, biorientation |-> 0]

\* ------------------------------------------------------------ dv_validation
CHANNEL_ORDER == <<"DIC", "DAPI", "mCherry", "GFP">>
REQUIRED_CHANNELS == {"DIC", "DAPI", "mCherry", "GFP"}

\* A channel name as a DV file gives it is a sequence of characters (the
\* names the program itself uses are strings).  str.lower and str.isalnum
\* on the characters that occur.
LowerChar(c) ==
    CASE c = "A" -> "a" [] c = "C" -> "c" [] c = "D" -> "d" [] c = "F" -> "f"
      [] c = "G" -> "g" [] c = "I" -> "i" [] c = "P" -> "p" [] OTHER -> c
IsAlnum(c) == c \notin {" ", "-", "_"}
Lower(name) == [k \in 1..Len(name) |-> LowerChar(name[k])]
Strip(name) ==
    LET inner == {k \in 1..Len(name) : name[k] # " "}
    IN  IF inner = {} THEN <<>>
        ELSE SubSeq(name, CHOOSE k \in inner : \A j \in inner : k <= j,
                          CHOOSE k \in inner : \A j \in inner : k >= j)
\* part in text
Contains(text, part) ==
    \E k \in 1..(Len(text) - Len(part) + 1) : SubSeq(text, k, k + Len(part) - 1) = part

\* The words the normalisation looks for.
W_dic == <<"d", "i", "c">>
W_dapi == <<"d", "a", "p", "i">>
W_gfp == <<"g", "f", "p">>
W_mcherry == <<"m", "c", "h", "e", "r", "r", "y">>
W_m_cherry == <<"m", "-", "c", "h", "e", "r", "r", "y">>
W_cherry == <<"c", "h", "e", "r", "r", "y">>
W_hoechst == <<"h", "o", "e", "c", "h", "s", "t">>
W_brightfield == <<"b", "r", "i", "g", "h", "t", "f", "i", "e", "l", "d">>
W_transmission == <<"t", "r", "a", "n", "s", "m", "i", "s", "s", "i", "o", "n">>
W_bf == <<"b", "f">>

\* _normalize_channel_name gives None for a name it does not know.
NoChannel == "None"
CHANNEL_NAME_ALIASES(lower) ==
    CASE lower = W_dic -> "DIC"
      [] lower = W_dapi -> "DAPI"
      [] lower = W_gfp -> "GFP"
      [] lower = W_mcherry -> "mCherry"
      [] lower = W_m_cherry -> "mCherry"
      [] OTHER -> NoChannel

normalize_channel_name(channel) ==
    LET raw == Strip(channel)
        lower == Lower(raw)
        compact == SelectSeq(lower, IsAlnum)
    IN  IF raw = <<>> THEN NoChannel
        ELSE IF CHANNEL_NAME_ALIASES(lower) # NoChannel THEN CHANNEL_NAME_ALIASES(lower)
        ELSE IF \/ Contains(compact, W_dic) \/ Contains(compact, W_brightfield)
                \/ Contains(compact, W_transmission) \/ compact = W_bf
             THEN "DIC"
        ELSE IF Contains(compact, W_dapi) \/ Contains(compact, W_hoechst) THEN "DAPI"
        ELSE IF Contains(compact, W_gfp) THEN "GFP"
        ELSE IF Contains(compact, W_mcherry) \/ Contains(compact, W_cherry) THEN "mCherry"
        ELSE NoChannel   \* raw is a character sequence other than a name of CHANNEL_ORDER

\* Without the test of the index against the layers of the file.
available_channels_any_index(channel_config, layer_count) ==
    {normalize_channel_name(raw_name) : raw_name \in DOMAIN channel_config} \ {NoChannel}

\* channel_config maps raw names to raw indexes (Number(i), or NotANumber
\* for a value int() refuses).
available_channels_from_config(channel_config, layer_count) ==
    {normalize_channel_name(raw_name) :
        raw_name \in {n \in DOMAIN channel_config :
                         /\ normalize_channel_name(n) # NoChannel
                         /\ channel_config[n].num
                         /\ 0 <= channel_config[n].val
                         /\ channel_config[n].val < layer_count}}

get_effective_required_channels(options) ==
    options.required_channels
    \cup (IF options.enforce_wavelengths THEN REQUIRED_CHANNELS ELSE {})

\* A DVValidationResult.  layer_count None is NotANumber; error_message
\* None is "".
DVValidationResult(is_valid, layer_count, missing_channels, required_channels, error_message) ==
    [is_valid |-> is_valid, layer_count |-> layer_count,
     missing_channels |-> missing_channels, required_channels |-> required_channels,
     error_message |-> error_message]

\* A DV file as the parser sees it: whether DVFile opens it (recognized),
\* what get_dv_layer_count gives (layers: Number(n), or NotANumber when it
\* raises) and what extract_channel_config gives (config).
validate_dv_file(file, options) ==
    LET required_channels == get_effective_required_channels(options)
        unrecognized == DVValidationResult(FALSE, NotANumber, {}, required_channels,
                                           "not a recognized DV file")
        missing_channels ==
            required_channels \ available_channels_from_config(file.config, file.layers.val)
    IN  IF ~file.recognized THEN unrecognized
        ELSE IF options.enforce_layer_count /\ ~file.layers.num THEN unrecognized
        ELSE IF options.enforce_layer_count /\ file.layers.val # EXPECTED_LAYER_COUNT
        THEN DVValidationResult(FALSE, file.layers, {}, required_channels, "")
        ELSE IF required_channels # {} /\ ~file.layers.num THEN unrecognized
        ELSE IF required_channels # {} /\ missing_channels # {}
        THEN DVValidationResult(FALSE, file.layers, missing_channels, required_channels, "")
        ELSE DVValidationResult(TRUE,
                                IF options.enforce_layer_count \/ required_channels # {}
                                THEN file.layers ELSE NotANumber,
                                {}, required_channels, "")

\* The names and indexes found in DV files, the files, and the options.
N_w1DIC == <<"w", "1", "D", "I", "C">>
N_mcherry == <<"m", "c", "h", "e", "r", "r", "y">>
N_GFP == <<" ", "G", "F", "P">>
N_DAPI == <<"D", "A", "P", "I">>
N_Cy5 == <<"C", "y", "5">>
RawNames == {N_w1DIC, N_mcherry, N_GFP, N_DAPI, N_Cy5}
RawIndexes == {Number(-1), Number(0), Number(1), NotANumber}
ChannelConfigs ==
    UNION {[names -> RawIndexes] : names \in {n \in SUBSET RawNames : Cardinality(n) <= MaxConfig}}
LayerCounts == {Number(1), Number(EXPECTED_LAYER_COUNT), NotANumber}
DVFiles ==
    {[recognized |-> r, layers |-> l, config |-> c] :
        r \in BOOLEAN, l \in LayerCounts, c \in ChannelConfigs}
RequiredSets == {{}, {"DIC"}, {"DIC", "DAPI"}, {"DIC", "mCherry", "GFP"}}
DVValidationOptions ==
    {[enforce_layer_count |-> lc, enforce_wavelengths |-> wl, required_channels |-> rc] :
        lc \in BOOLEAN, wl \in BOOLEAN, rc \in RequiredSets}

\* ------------------------------------------------------------ stats_plugins
\* No channel required whatever is selected.
NoAlwaysRequired == {}

ALWAYS_REQUIRED_CHANNELS == {"DIC"}
SEGMENTATION_REQUIREMENT_LABEL == "Segmentation/CNN"
PLUGIN_ORDER ==
    <<"MCherryLine", "GFPDot", "GreenRedIntensity", "NucleusIntensity",
      "DAPI_NucleusIntensity", "RedBlueIntensity">>
StatsPluginDefinition(channels, plugins) ==
    [required_channels |-> channels, required_plugins |-> plugins]
PLUGIN_DEFINITIONS ==
    [plugin_id \in {PLUGIN_ORDER[k] : k \in 1..Len(PLUGIN_ORDER)} |->
        CASE plugin_id = "MCherryLine" -> StatsPluginDefinition({"mCherry", "GFP"}, {})
          [] plugin_id = "GFPDot" -> StatsPluginDefinition({"mCherry", "GFP"}, {})
          [] plugin_id = "GreenRedIntensity" -> StatsPluginDefinition({"mCherry", "GFP"}, {})
          [] plugin_id = "NucleusIntensity" -> StatsPluginDefinition({"DAPI", "GFP"}, {})
          [] plugin_id = "DAPI_NucleusIntensity" -> StatsPluginDefinition({"DAPI"}, {})
          [] plugin_id = "RedBlueIntensity" -> StatsPluginDefinition({"mCherry", "DAPI"}, {})]

\* sorted(channels, key=_channel_sort_key) for channels of CHANNEL_ORDER
\* (the only ones a plugin definition names): their keys are distinct.
sorted_channels(channels) == SelectSeq(CHANNEL_ORDER, LAMBDA c : c \in channels)

\* [plugin_id for plugin_id in PLUGIN_ORDER if plugin_id in chosen]
in_plugin_order(chosen) == SelectSeq(PLUGIN_ORDER, LAMBDA id : id \in chosen)

normalize_selected_plugins(selected_plugins) ==
    in_plugin_order({selected_plugins[k] : k \in 1..Len(selected_plugins)}
                    \cap DOMAIN PLUGIN_DEFINITIONS)

expand_selected_plugins(selected_plugins) ==
    LET RECURSIVE Drain(_, _)
        Drain(queue, resolved) ==
            IF queue = <<>> THEN resolved
            ELSE LET deps == (PLUGIN_DEFINITIONS[Head(queue)].required_plugins
                              \cap DOMAIN PLUGIN_DEFINITIONS) \ resolved
                 IN  Drain(Tail(queue) \o in_plugin_order(deps), resolved \cup deps)
        queue0 == normalize_selected_plugins(selected_plugins)
    IN  in_plugin_order(Drain(queue0, {queue0[k] : k \in 1..Len(queue0)}))

get_required_channels_for_plugins(selected_plugins) ==
    LET expanded_plugins == expand_selected_plugins(selected_plugins)
        required_channels ==
            ALWAYS_REQUIRED_CHANNELS
            \cup UNION {PLUGIN_DEFINITIONS[expanded_plugins[k]].required_channels :
                           k \in 1..Len(expanded_plugins)}
    IN  <<sorted_channels(required_channels), expanded_plugins>>

build_requirement_summary(selected_plugins) ==
    LET pair == get_required_channels_for_plugins(selected_plugins)
        required_channels == pair[1]
        expanded_plugins == pair[2]
    IN  [selected_plugins |-> expanded_plugins,
         required_channels |-> required_channels,
         required_channel_set |-> {required_channels[k] : k \in 1..Len(required_channels)},
         required_sources |->
             [channel \in {CHANNEL_ORDER[k] : k \in 1..Len(CHANNEL_ORDER)} |->
                 (IF channel \in ALWAYS_REQUIRED_CHANNELS
                  THEN <<SEGMENTATION_REQUIREMENT_LABEL>> ELSE <<>>)
                 \o SelectSeq(expanded_plugins,
                              LAMBDA id : channel \in PLUGIN_DEFINITIONS[id].required_channels)]]

\* The selections a request can carry: plugin IDs and an ID that is no
\* plugin, in any order, repeated or not.
SelectableIds == {PLUGIN_ORDER[k] : k \in 1..Len(PLUGIN_ORDER)} \cup {"Unknown"}
Selections == SeqsUpTo(SelectableIds, MaxSelected)

\* -------------------------------------------------- build_dv_error_messages
\* A text is the sequence of the pieces it is concatenated from: "" is <<>>,
\* and f"{name}.dv" is <<name, ".dv">>.
RECURSIVE join(_, _)
\* sep.join(parts), for a list of texts
join(parts, sep) ==
    IF Len(parts) = 0 THEN <<>>
    ELSE IF Len(parts) = 1 THEN parts[1]
    ELSE parts[1] \o <<sep>> \o join(Tail(parts), sep)

DIGITS == <<"0", "1", "2", "3", "4", "5", "6", "7", "8", "9">>
RECURSIVE str(_)
\* The decimal text of a count, as the f-string formats it.
str(n) ==
    IF n < 10 THEN <<DIGITS[n + 1]>>
    ELSE str(n \div 10) \o <<DIGITS[(n % 10) + 1]>>

join_words(parts) ==
    IF Len(parts) = 0 THEN <<>>
    ELSE IF Len(parts) = 1 THEN <<parts[1]>>
    ELSE IF Len(parts) = 2 THEN <<parts[1], " and ", parts[2]>>
    ELSE join([k \in 1..(Len(parts) - 1) |-> <<parts[k]>>], ", ")
         \o <<", and ", parts[Len(parts)]>>

\* The names of the uploaded files, listed in the order sorted() gives
\* their file names.
FileStems == <<"file_a", "file_b">>
file_name(name) == <<name, ".dv">>
RECURSIVE sorted_from(_, _)
sorted_from(files, k) ==
    IF k > Len(FileStems) THEN <<>>
    ELSE SelectSeq(files, LAMBDA f : f = file_name(FileStems[k])) \o sorted_from(files, k + 1)
\* sorted(wavelength_groups[missing_key])
sorted_files(files) == sorted_from(files, 1)

\* The channel names in the order of str comparison (upper case first).
STRING_ORDER == <<"DAPI", "DIC", "GFP", "mCherry">>
StringRank(c) == CHOOSE k \in 1..Len(STRING_ORDER) : STRING_ORDER[k] = c
\* (len(a), a) < (len(b), b)
key_less(a, b) ==
    \/ Len(a) < Len(b)
    \/ /\ Len(a) = Len(b)
       /\ \E i \in 1..Len(a) :
              /\ \A j \in 1..(i - 1) : a[j] = b[j]
              /\ StringRank(a[i]) < StringRank(b[i])
RECURSIVE sorted_keys(_)
\* sorted(wavelength_groups.keys(), key=lambda key: (len(key), key))
sorted_keys(keys) ==
    IF keys = {} THEN <<>>
    ELSE LET first == CHOOSE a \in keys : \A b \in keys \ {a} : key_less(a, b)
         IN  <<first>> \o sorted_keys(keys \ {first})

InvalidFileTitle ==
    "Could not process the following files because they are not recognized DV files:"
LayerCountTitle ==
    "Could not process the following files due to invalid layer counts (expected 4 layers):"
WavelengthTitle ==
    "Could not process the following files due to missing required wavelengths:"

\* The layer count is reported whatever the options say.
layer_count_reported_any_options(res, options) ==
    /\ res.layer_count.num
    /\ res.layer_count.val # EXPECTED_LAYER_COUNT

\* The condition of the layer-count branch of the loop over the failures.
layer_count_reported(res, options) ==
    /\ options.enforce_layer_count
    /\ res.layer_count.num
    /\ res.layer_count.val # EXPECTED_LAYER_COUNT

\* 'all required wavelengths' for a one-channel requirement too.
missing_text_all_when_equal(missing_key, required_channels) ==
    IF /\ required_channels # {}
       /\ {missing_key[k] : k \in 1..Len(missing_key)} = required_channels
    THEN <<"all required wavelengths">>
    ELSE join_words(missing_key)

missing_text(missing_key, required_channels) ==
    IF /\ required_channels # {}
       /\ {missing_key[k] : k \in 1..Len(missing_key)} = required_channels
       /\ Cardinality(required_channels) > 1
    THEN <<"all required wavelengths">>
    ELSE join_words(missing_key)

append_section(messages, title, items) ==
    IF items = <<>> THEN messages
    ELSE messages \o (IF messages # <<>> THEN << <<>> >> ELSE <<>>) \o << <<title>> >> \o items

\* failures is a list of <<name, result>>; the value is the list of lines.
build_dv_error_messages(failures, options) ==
    LET required_channels == get_effective_required_channels(options)
        indexes == [k \in 1..Len(failures) |-> k]
        name_of(k) == failures[k][1]
        result_of(k) == failures[k][2]
        is_invalid_file(k) == result_of(k).error_message # ""
        is_layer_error(k) ==
            ~is_invalid_file(k) /\ layer_count_reported(result_of(k), options)
        is_grouped(k) ==
            /\ ~is_invalid_file(k)
            /\ ~layer_count_reported(result_of(k), options)
            /\ result_of(k).missing_channels # {}
        invalid_indexes == SelectSeq(indexes, is_invalid_file)
        layer_indexes == SelectSeq(indexes, is_layer_error)
        grouped_indexes == SelectSeq(indexes, is_grouped)
        invalid_file_errors ==
            [j \in 1..Len(invalid_indexes) |->
                <<"- ">> \o file_name(name_of(invalid_indexes[j]))
                \o <<" is ", result_of(invalid_indexes[j]).error_message>>]
        layer_line(k) ==
            LET count == result_of(k).layer_count.val
            IN  <<"- ">> \o file_name(name_of(k)) \o <<" has ">> \o str(count)
                \o <<" layer">> \o (IF count # 1 THEN <<"s">> ELSE <<>>)
                \o <<" (expected ">> \o str(EXPECTED_LAYER_COUNT) \o <<")">>
        layer_errors == [j \in 1..Len(layer_indexes) |-> layer_line(layer_indexes[j])]
        missing_key_of(k) == sorted_channels(result_of(k).missing_channels)
        wavelength_groups ==
            [key \in {missing_key_of(grouped_indexes[j]) : j \in 1..Len(grouped_indexes)} |->
                LET members == SelectSeq(grouped_indexes, LAMBDA k : missing_key_of(k) = key)
                IN  [j \in 1..Len(members) |-> file_name(name_of(members[j]))]]
        group_line(missing_key) ==
            <<"- ">> \o join(sorted_files(wavelength_groups[missing_key]), ", ")
            \o <<": missing ">> \o missing_text(missing_key, required_channels)
        keys == sorted_keys(DOMAIN wavelength_groups)
        required_line ==
            LET required_list == sorted_channels(required_channels)
            IN  <<"The following wavelengths are required: ">>
                \o join([k \in 1..Len(required_list) |-> <<required_list[k]>>], ", ")
                \o <<".">>
        messages ==
            append_section(append_section(<<>>, InvalidFileTitle, invalid_file_errors),
                           LayerCountTitle, layer_errors)
    IN  IF DOMAIN wavelength_groups = {} THEN messages
        ELSE messages
             \o (IF messages # <<>> THEN << <<>> >> ELSE <<>>)
             \o << <<WavelengthTitle>> >>
             \o (IF required_channels # {} THEN <<required_line>> ELSE <<>>)
             \o [j \in 1..Len(keys) |-> group_line(keys[j])]

\* The failures the upload view collects: the invalid results of
\* validate_dv_file for a few files, the result the view builds for a queued
\* file that is gone, and results built by hand.
ReportedConfigs ==
    {<<>>, (N_w1DIC :> Number(0)), (N_w1DIC :> Number(0)) @@ (N_DAPI :> Number(1))}
ReportedFiles == {file \in DVFiles : file.config \in ReportedConfigs}
HandBuiltResults(options) ==
    LET required_channels == get_effective_required_channels(options)
    IN  {DVValidationResult(FALSE, NotANumber, {}, required_channels,
                            "no longer available in the upload queue"),
         DVValidationResult(FALSE, Number(1), {"DIC"}, required_channels, ""),
         DVValidationResult(FALSE, Number(1), {"GFP"}, required_channels,
                            "not a recognized DV file")}
FailureLists(options) ==
    LET results ==
            {r \in {validate_dv_file(file, options) : file \in ReportedFiles} : ~r.is_valid}
            \cup HandBuiltResults(options)
    IN  SeqsUpTo({FileStems[k] : k \in 1..Len(FileStems)} \X results, MaxFiles)

\* -------------------------------------------------------------- rate_limit
\* A cached state is a dict: a function from the field names it holds.
Get(state, field, default) == IF field \in DOMAIN state THEN state[field] ELSE default
Put(state, field, value) ==
    [f \in DOMAIN state \cup {field} |-> IF f = field THEN value ELSE state[f]]
SetDefault(state, field, value) == IF field \in DOMAIN state THEN state ELSE Put(state, field, value)
EmptyState == <<>>

MaxOf(a, b) == IF a >= b THEN a ELSE b
MinOf(a, b) == IF a <= b THEN a ELSE b
RECURSIVE MaxIn(_)
MaxIn(s) == IF Len(s) = 1 THEN s[1] ELSE MaxOf(s[1], MaxIn(Tail(s)))

\* The settings the login view passes, scaled to the time horizon.
Modes == {"sliding", "lockout"}
LockoutSchedule == <<1, 2>>
RateKeys == {"rl:login:ip", "rl:login:user"}
KeyLists == {<<"rl:login:ip">>, <<"rl:login:ip", "rl:login:user">>}

\* _ttl(window_seconds) and _ttl(window_seconds, lockout_schedule)
ttl(window_seconds, lockout_schedule) ==
    IF lockout_schedule # <<>>
    THEN MaxOf(MaxOf(MaxIn(lockout_schedule), window_seconds), MinTtl)
    ELSE MaxOf(window_seconds, MinTtl)

\* The cache: an entry is gone once its timeout has passed.
NoEntry == [stored |-> FALSE, expires |-> 0, state |-> EmptyState]
cache_get(c, key, t) == IF c[key].stored /\ t < c[key].expires THEN c[key].state ELSE EmptyState
cache_set(c, key, state, t, timeout) ==
    [c EXCEPT ![key] = [stored |-> TRUE, expires |-> t + timeout, state |-> state]]

\* The window closed on the side of the old attempts as well.
prune_attempts_inclusive(attempts, t, window_seconds) ==
    SelectSeq(attempts, LAMBDA ts : t - ts <= window_seconds)

prune_attempts(attempts, t, window_seconds) ==
    SelectSeq(attempts, LAMBDA ts : t - ts < window_seconds)

get_state(c, key, t, window_seconds, mode) ==
    LET state == cache_get(c, key, t)
        last_attempt == Get(state, "last_attempt", 0)
        stored_until == Get(state, "locked_until", 0)
        lock_over == stored_until # 0 /\ stored_until <= t
        locked_until == IF lock_over THEN 0 ELSE stored_until
        unlocked == IF lock_over THEN Put(Put(state, "locked_until", 0), "count", 0) ELSE state
        windowed ==
            IF last_attempt # 0 /\ t - last_attempt > window_seconds
            THEN Put(unlocked, "count", 0) ELSE unlocked
    IN  IF mode = "sliding"
        THEN Put(state, "attempts", prune_attempts(Get(state, "attempts", <<>>), t, window_seconds))
        ELSE SetDefault(SetDefault(SetDefault(SetDefault(windowed,
                 "count", 0), "level", 0), "locked_until", locked_until),
                 "last_attempt", last_attempt)

\* check_rate_limit: the loop over the keys, from key number k on; acc holds
\* the cache and the values returned so far.
RECURSIVE check_keys(_, _, _, _, _, _, _)
check_keys(acc, keys, k, max_attempts, window_seconds, mode, t) ==
    IF k > Len(keys) THEN acc
    ELSE LET state == get_state(acc.cache, keys[k], t, window_seconds, mode)
             attempts == Get(state, "attempts", <<>>)
             full == Len(attempts) >= max_attempts
             locked_until == Get(state, "locked_until", 0)
             next ==
                 IF mode = "sliding"
                 THEN [cache |-> cache_set(acc.cache, keys[k], state, t, ttl(window_seconds, <<>>)),
                       limited |-> acc.limited \/ full,
                       retry_after |->
                           IF full
                           THEN MaxOf(acc.retry_after, MaxOf(0, attempts[1] + window_seconds - t))
                           ELSE acc.retry_after,
                       level |-> acc.level]
                 ELSE IF locked_until > t
                 THEN [cache |-> acc.cache,
                       limited |-> TRUE,
                       retry_after |-> MaxOf(acc.retry_after, locked_until - t),
                       level |-> MaxOf(acc.level, Get(state, "level", 0))]
                 ELSE acc
         IN  check_keys(next, keys, k + 1, max_attempts, window_seconds, mode, t)
check_rate_limit(c, keys, max_attempts, window_seconds, lockout_schedule, mode, t) ==
    check_keys([cache |-> c, limited |-> FALSE, retry_after |-> 0, level |-> 0],
               keys, 1, max_attempts, window_seconds, mode, t)

\* register_failure for one key: the body of its loop.
register_key(c, key, max_attempts, window_seconds, lockout_schedule, mode, t) ==
    LET state == get_state(c, key, t, window_seconds, mode)
        attempts == Get(state, "attempts", <<>>)
        counted == Put(Put(state, "count", Get(state, "count", 0) + 1), "last_attempt", t)
        level == Get(counted, "level", 0)
        lock_seconds ==
            IF lockout_schedule # <<>>
            THEN lockout_schedule[MinOf(level, Len(lockout_schedule) - 1) + 1]
            ELSE window_seconds
        locked ==
            Put(Put(Put(counted, "locked_until", t + lock_seconds), "count", 0),
                "level", MinOf(level + 1, MaxOf(Len(lockout_schedule) - 1, 0)))
    IN  IF mode = "sliding"
        THEN cache_set(c, key,
                       Put(state, "attempts",
                           IF Len(attempts) < max_attempts THEN Append(attempts, t) ELSE attempts),
                       t, ttl(window_seconds, <<>>))
        ELSE IF Get(state, "locked_until", 0) > t THEN c
        ELSE cache_set(c, key,
                       IF counted["count"] >= max_attempts THEN locked ELSE counted,
                       t, ttl(window_seconds, lockout_schedule))
RECURSIVE register_failure_from(_, _, _, _, _, _, _, _)
register_failure_from(c, keys, k, max_attempts, window_seconds, lockout_schedule, mode, t) ==
    IF k > Len(keys) THEN c
    ELSE register_failure_from(
             register_key(c, keys[k], max_attempts, window_seconds, lockout_schedule, mode, t),
             keys, k + 1, max_attempts, window_seconds, lockout_schedule, mode, t)
register_failure(c, keys, max_attempts, window_seconds, lockout_schedule, mode, t) ==
    register_failure_from(c, keys, 1, max_attempts, window_seconds, lockout_schedule, mode, t)

\* ------------------------------------------------------------ serve_media
\* A path is the sequence of its segments: the text between the "/".
MEDIA_ROOT == <<"srv", "media">>
\* The users, the stored images (uuid and owner) and the files on disk: one
\* file in the directory of each image and one outside MEDIA_ROOT.
GuestUser == "guest"
Anonymous == "anonymous"
Requesters == {"alice", "bob", Anonymous}
UploadedImages ==
    {[uuid |-> "a-uuid", user |-> "alice"], [uuid |-> "b-uuid", user |-> "bob"],
     [uuid |-> "g-uuid", user |-> GuestUser]}
Files ==
    {MEDIA_ROOT \o <<image.uuid, "f.png">> : image \in UploadedImages}
    \cup {<<"srv", "secret.txt">>}
\* str(uuid.UUID(segment)): the canonical text of the UUID the segment
\* spells (upper case is accepted), or InvalidUuid when it spells none.
InvalidUuid == "ValueError"
parse_uuid(segment) ==
    IF segment \in {"a-uuid", "A-UUID"} THEN "a-uuid"
    ELSE IF segment \in {"b-uuid", "g-uuid"} THEN segment
    ELSE InvalidUuid
PathSegments == {"a-uuid", "A-UUID", "b-uuid", "g-uuid", "..", ".", "", "f.png", "secret.txt"}
RelativePaths == SeqsUpTo(PathSegments, MaxSegments)

RECURSIVE lstrip(_)
\* .lstrip("/\\"): the leading separators go, and the empty segments with them
lstrip(segments) ==
    IF segments # <<>> /\ segments[1] = "" THEN lstrip(Tail(segments)) ELSE segments
RECURSIVE resolve_from(_, _)
resolve_from(base, segments) ==
    IF segments = <<>> THEN base
    ELSE IF segments[1] \in {"", "."} THEN resolve_from(base, Tail(segments))
    ELSE IF segments[1] = ".."
    THEN resolve_from(IF base = <<>> THEN base ELSE SubSeq(base, 1, Len(base) - 1), Tail(segments))
    ELSE resolve_from(Append(base, segments[1]), Tail(segments))
\* (media_root / normalized).resolve(), on a disk without symbolic links
resolve(base, segments) == resolve_from(base, segments)
IsPrefix(a, b) == Len(a) <= Len(b) /\ SubSeq(b, 1, Len(a)) = a

\* {"user": request.user} or {"user_id": get_guest_user()}
current_owner_filter(requester) == IF requester # Anonymous THEN requester ELSE GuestUser

Http404 == [status |-> 404]
FileResponse(file_path) == [status |-> 200, file |-> file_path]
serve_media(requester, relative_path) ==
    LET normalized == lstrip(relative_path)
        file_uuid == parse_uuid(normalized[1])
        owner == current_owner_filter(requester)
        media_root == resolve(<<>>, MEDIA_ROOT)
        file_path == resolve(media_root, normalized)
    IN  IF normalized = <<>> THEN Http404
        ELSE IF file_uuid = InvalidUuid THEN Http404
        ELSE IF ~\E image \in UploadedImages : image.uuid = file_uuid /\ image.user = owner
        THEN Http404
        ELSE IF ~IsPrefix(media_root, file_path) THEN Http404
        ELSE IF file_path \notin Files THEN Http404
        ELSE FileResponse(file_path)

\* ----------------------------------------------------------- display_cell
\* request.user.id: the id of an authenticated user, None otherwise. The
\* guest user is the account with e-mail guest@local.invalid.
NoneId == "None"
user_id(requester) == IF requester = Anonymous THEN NoneId ELSE requester
\* The SegmentedImage rows (UUID and user_id), and the UUIDs a request
\* names: "u-uuid" is uploaded and not segmented, "x-uuid" is not uploaded.
SegmentedImages ==
    {[UUID |-> "a-uuid", user_id |-> "alice"], [UUID |-> "g-uuid", user_id |-> GuestUser]}
UploadedUuids == {image.UUID : image \in SegmentedImages} \cup {"u-uuid"}
DisplayUuids == UploadedUuids \cup {"x-uuid"}
CellIds == 1..MaxCells
AllCellStatistics == {<<image.UUID, cell_id>> : image \in SegmentedImages, cell_id \in CellIds}
\* The requests: a GET, a POST that selects a channel, or a POST that
\* deletes the posted cell_id (0: a cell that has no row); ?_export= names a
\* valid format or not.
PostKeys ==
    {[method |-> "GET", POST |-> {}, cell_id |-> 0],
     [method |-> "POST", POST |-> {"gfp"}, cell_id |-> 0]}
    \cup {[method |-> "POST", POST |-> {"delete"}, cell_id |-> c] : c \in 0..MaxCells}
DisplayRequests ==
    {[user |-> requester, uuids |-> uuids, method |-> post.method, POST |-> post.POST,
      cell_id |-> post.cell_id, export |-> export] :
        requester \in Requesters, uuids \in SeqsUpTo(DisplayUuids, MaxUuids) \ {<<>>},
        post \in PostKeys, export \in BOOLEAN}
segmented_image(uuid) == CHOOSE image \in SegmentedImages : image.UUID = uuid
\* the test of lines 81-83
unauthorized(cell_image, request) ==
    \/ cell_image.user_id # user_id(request.user) /\ user_id(request.user) # NoneId
    \/ user_id(request.user) = NoneId /\ cell_image.user_id # GuestUser

RECURSIVE display_cell_from(_, _, _, _)
\* The loop over uuid_list from position i, with the rows stored so far and
\* whether a table was built: the rows it leaves and the status it answers.
display_cell_from(request, i, stats, has_table) ==
    IF i > Len(request.uuids) THEN [cell_stats |-> stats, status |-> 200]
    ELSE
    LET uuid == request.uuids[i]
        deletes == request.method = "POST" /\ "delete" \in request.POST
        cell_image == segmented_image(uuid)
        after_delete == IF deletes THEN stats \ {<<uuid, request.cell_id>>} ELSE stats
        rows == {row \in after_delete : row[1] = uuid}
        table == has_table \/ rows # {}
    IN  IF uuid \notin UploadedUuids THEN [cell_stats |-> stats, status |-> 404]
        ELSE IF ~\E image \in SegmentedImages : image.UUID = uuid
        THEN [cell_stats |-> stats, status |-> 404]
        ELSE IF deletes /\ <<uuid, request.cell_id>> \notin stats
        THEN [cell_stats |-> stats, status |-> 500]
        ELSE IF unauthorized(cell_image, request)
        THEN [cell_stats |-> after_delete, status |-> 401]
        ELSE IF request.export /\ table
        THEN [cell_stats |-> after_delete, status |-> 200]
        ELSE display_cell_from(request, i + 1, after_delete, table)
display_cell(request, stats) == display_cell_from(request, 1, stats, FALSE)

\* ----------------------------------------- accounts: the e-mailed codes
VERIFY_CODE_TTL_SECONDS == 30 * 60
VERIFY_CODE_MAX_ATTEMPTS == 5
\* 60 with settings.DEBUG off
VERIFY_CODE_RESEND_SECONDS == 60
RECOVERY_CODE_TTL_SECONDS == VERIFY_CODE_TTL_SECONDS
RECOVERY_CODE_MAX_ATTEMPTS == VERIFY_CODE_MAX_ATTEMPTS
RECOVERY_CODE_RESEND_SECONDS == VERIFY_CODE_RESEND_SECONDS
\* The wait between two requests, when there is one: a second longer than
\* a code lives (the resend interval is over as well).
ClockSteps == {VERIFY_CODE_TTL_SECONDS + 1}

Pop(state, field) == [f \in DOMAIN state \ {field} |-> state[f]]
RECURSIVE PopAll(_, _)
PopAll(state, fields) ==
    IF fields = <<>> THEN state ELSE PopAll(Pop(state, fields[1]), Tail(fields))

\* The e-mails a form carries, as typed, and email.strip().lower() of each.
Registered == {"a@x.org", "b@x.org"}
TypedEmails == {"a@x.org", " B@x.org", "c@x.org", "", "not-an-email"}
normalize_email(email) == IF email = " B@x.org" THEN "b@x.org" ELSE email
\* EmailValidator()(email) raises no ValidationError
valid_email(email) == email \in {"a@x.org", "b@x.org", "c@x.org"}
\* secrets.randbelow(1_000_000) as six digits: the views only test whether
\* the code typed equals the one stored, so one value stands for the code
\* drawn. A form carries it, other six digits, nothing, or text that is no
\* six digits.
Codes == {"111111"}
TypedCodes == Codes \cup {"222222", "", "12ab"}
six_digits(code) == code \in {"111111", "222222"}
\* The passwords of a form; validate_password accepts the first only.
Passwords == {"Str0ng-pass", "weak", ""}
validate_password(password) == password = "Str0ng-pass"

\* ---------------------------------------------- _handle_password_recovery
clear_recovery_verify_session(s) ==
    PopAll(s, <<"recovery_verify_code", "recovery_verify_code_sent_at",
                "recovery_verify_code_attempts", "recovery_verify_code_locked">>)
clear_recovery_session(s) ==
    clear_recovery_verify_session(
        PopAll(s, <<"recovery_step", "recovery_email", "recovery_code_verified">>))
expire_recovery_code(s) ==
    PopAll(s, <<"recovery_verify_code", "recovery_verify_code_attempts">>)
\* _is_recovery_code_active, for the session it leaves: a stale code is dropped
is_recovery_code_active(s, t) ==
    IF /\ Get(s, "recovery_verify_code", "") # ""
       /\ Get(s, "recovery_verify_code_sent_at", 0) # 0
       /\ t - s["recovery_verify_code_sent_at"] > RECOVERY_CODE_TTL_SECONDS
    THEN expire_recovery_code(s) ELSE s
recovery_resend_wait_seconds(s, t) ==
    LET sent_at == Get(s, "recovery_verify_code_sent_at", 0)
    IN  IF sent_at = 0 THEN 0
        ELSE MaxOf(0, RECOVERY_CODE_RESEND_SECONDS - (t - sent_at))

\* The requests of the recovery flow: a GET (with fresh=1 or without) or a
\* POST with one of the buttons and the fields that button reads.
NoFields == [email |-> "", verify_code |-> "", password |-> "", verify_password |-> ""]
RecoveryRequests ==
    {NoFields @@ [method |-> "POST", button |-> b] :
        b \in {"cancel_recovery", "back_email", "back_code", "resend_code", "none"}}
    \cup {NoFields @@ [method |-> "GET", button |-> b] : b \in {"fresh", "none"}}
    \cup {[NoFields EXCEPT !.email = e] @@ [method |-> "POST", button |-> "send_code"] :
             e \in TypedEmails}
    \cup {[NoFields EXCEPT !.verify_code = c]
             @@ [method |-> "POST", button |-> "verify_code_submit"] : c \in TypedCodes}
    \cup {[NoFields EXCEPT !.password = pw, !.verify_password = vpw]
             @@ [method |-> "POST", button |-> "reset_password"] :
             pw \in Passwords, vpw \in Passwords \ {"weak"}}

\* What one request leaves: the session, the accounts, the e-mail a code
\* was mailed to, whether a submitted code was compared equal to the stored
\* one, and the e-mail of the account whose password was changed.
Answer(s, accounts) ==
    [session |-> s, users |-> accounts, mailed_to |-> "none", code |-> "",
     verified_now |-> FALSE, changed |-> "none"]

\* lines 323-370
recovery_send_code(request, s, accounts, t, verify_code, mail_ok) ==
    LET email == normalize_email(request.email)
        s1 == PopAll(Put(s, "recovery_email", email),
                     <<"recovery_code_verified", "recovery_verify_code_locked">>)
    IN  IF email = "" \/ ~valid_email(email) THEN Answer(s1, accounts)
        ELSE IF email \notin DOMAIN accounts THEN Answer(Pop(s1, "recovery_email"), accounts)
        ELSE IF recovery_resend_wait_seconds(s1, t) > 0 THEN Answer(s1, accounts)
        ELSE IF ~mail_ok THEN Answer(s1, accounts)
        ELSE [Answer(Put(Put(Put(Put(s1, "recovery_verify_code", verify_code),
                                 "recovery_verify_code_sent_at", t),
                             "recovery_verify_code_attempts", 0),
                         "recovery_step", 2), accounts)
              EXCEPT !.mailed_to = email, !.code = verify_code]

\* lines 372-403
recovery_resend_code(s, accounts, t, verify_code, mail_ok) ==
    LET email == Get(s, "recovery_email", "")
    IN  IF email = "" THEN Answer(Put(s, "recovery_step", 1), accounts)
        ELSE IF recovery_resend_wait_seconds(s, t) > 0 THEN Answer(s, accounts)
        ELSE IF ~mail_ok THEN Answer(s, accounts)
        ELSE [Answer(PopAll(Put(Put(Put(s, "recovery_verify_code", verify_code),
                                    "recovery_verify_code_sent_at", t),
                                "recovery_verify_code_attempts", 0),
                            <<"recovery_code_verified", "recovery_verify_code_locked">>),
                     accounts)
              EXCEPT !.mailed_to = email, !.code = verify_code]

\* lines 405-474
recovery_verify_code_submit(request, s, accounts, t) ==
    LET code == request.verify_code
        format_error == code = "" \/ ~six_digits(code)
        stored_code == Get(s, "recovery_verify_code", "")
        sent_at == Get(s, "recovery_verify_code_sent_at", 0)
        attempts == Get(s, "recovery_verify_code_attempts", 0) + 1
    IN  IF Get(s, "recovery_verify_code_locked", FALSE) THEN Answer(s, accounts)
        ELSE IF Get(s, "recovery_code_verified", FALSE)
        THEN Answer(Put(s, "recovery_step", 3), accounts)
        ELSE IF stored_code # "" /\ sent_at # 0 /\ code # "" /\ ~format_error
        THEN IF t - sent_at > RECOVERY_CODE_TTL_SECONDS
             THEN Answer(expire_recovery_code(s), accounts)
             ELSE IF code # stored_code
             THEN IF attempts >= RECOVERY_CODE_MAX_ATTEMPTS
                  THEN Answer(expire_recovery_code(
                           Put(Put(s, "recovery_verify_code_attempts", attempts),
                               "recovery_verify_code_locked", TRUE)), accounts)
                  ELSE Answer(Put(s, "recovery_verify_code_attempts", attempts), accounts)
             ELSE [Answer(Put(Put(s, "recovery_code_verified", TRUE), "recovery_step", 3),
                          accounts)
                   EXCEPT !.verified_now = TRUE, !.code = code]
        ELSE Answer(s, accounts)

\* lines 476-534
recovery_reset_password(request, s, accounts, save_ok) ==
    LET email == Get(s, "recovery_email", "")
        password == request.password
        verify_password == request.verify_password
    IN  IF ~Get(s, "recovery_code_verified", FALSE)
        THEN Answer(Put(s, "recovery_step", 2), accounts)
        ELSE IF email = "" THEN Answer(Put(s, "recovery_step", 1), accounts)
        ELSE IF email \notin DOMAIN accounts
        THEN Answer(Put(Pop(s, "recovery_email"), "recovery_step", 1), accounts)
        ELSE IF password = "" \/ ~validate_password(password) THEN Answer(s, accounts)
        ELSE IF verify_password = "" \/ password # verify_password THEN Answer(s, accounts)
        ELSE IF ~save_ok THEN Answer(s, accounts)
        ELSE [Answer(clear_recovery_session(s), Put(accounts, email, password))
              EXCEPT !.changed = email]

\* lines 220-536: the reset on a fresh GET, the stale code dropped, the step
\* made consistent with the session, then the branch of the button
handle_password_recovery(request, s0, accounts, t, verify_code, mail_ok, save_ok) ==
    LET s1 == IF request.method = "GET" /\ request.button = "fresh"
              THEN clear_recovery_session(s0) ELSE s0
        s2 == is_recovery_code_active(s1, t)
        step0 == Get(s2, "recovery_step", 1)
        step1 == IF step0 > 1 /\ Get(s2, "recovery_email", "") = "" THEN 1 ELSE step0
        step2 == IF step1 > 1 /\ Get(s2, "recovery_verify_code_sent_at", 0) = 0
                 THEN 1 ELSE step1
        step3 == IF step2 > 2 /\ ~Get(s2, "recovery_code_verified", FALSE) THEN 2 ELSE step2
        s == Put(s2, "recovery_step", step3)
    IN  IF request.method # "POST" THEN Answer(s, accounts)
        ELSE IF request.button = "cancel_recovery"
        THEN Answer(clear_recovery_session(s), accounts)
        ELSE IF request.button = "back_email"
        THEN Answer(Put(Pop(clear_recovery_verify_session(s), "recovery_code_verified"),
                        "recovery_step", 1), accounts)
        ELSE IF request.button = "back_code" THEN Answer(Put(s, "recovery_step", 2), accounts)
        ELSE IF request.button = "send_code"
        THEN recovery_send_code(request, s, accounts, t, verify_code, mail_ok)
        ELSE IF request.button = "resend_code"
        THEN recovery_resend_code(s, accounts, t, verify_code, mail_ok)
        ELSE IF request.button = "verify_code_submit"
        THEN recovery_verify_code_submit(request, s, accounts, t)
        ELSE IF request.button = "reset_password"
        THEN recovery_reset_password(request, s, accounts, save_ok)
        ELSE Answer(s, accounts)

\* ------------------------------------------------------------------ signup
\* The e-mails and names a signup form carries, as typed; the e-mail is
\* stored as _normalize_email(email).lower().
SignupEmails == {"a@x.org", "c@x.org", " D@x.org"}
signup_email(email) == IF email = " D@x.org" THEN "d@x.org" ELSE email
signup_valid_email(email) == email \in {"a@x.org", "c@x.org", "d@x.org"}
TypedNames == {<<"Ada", "Lovelace">>, <<"", "Lovelace">>}

clear_verify_session(s) ==
    PopAll(s, <<"verify_code", "verify_code_sent_at", "verify_code_attempts",
                "verify_code_locked">>)
expire_verify_code(s) == PopAll(s, <<"verify_code", "verify_code_attempts">>)
clear_signup_session(s) ==
    clear_verify_session(
        PopAll(s, <<"signup_step", "signup_first_name", "signup_last_name",
                    "signup_email", "signup_code_verified">>))
\* _is_code_active, for the session it leaves: a stale code is dropped
is_code_active(s, t) ==
    IF /\ Get(s, "verify_code", "") # ""
       /\ Get(s, "verify_code_sent_at", 0) # 0
       /\ t - s["verify_code_sent_at"] > VERIFY_CODE_TTL_SECONDS
    THEN expire_verify_code(s) ELSE s
resend_wait_seconds(s, t) ==
    LET sent_at == Get(s, "verify_code_sent_at", 0)
    IN  IF sent_at = 0 THEN 0
        ELSE MaxOf(0, VERIFY_CODE_RESEND_SECONDS - (t - sent_at))

\* The requests of the signup: a GET (that resets the flow or not) or a POST
\* with one of the buttons and the fields that button reads.
NoSignupFields ==
    [first_name |-> "", last_name |-> "", email |-> "", verify_code |-> "",
     password |-> "", verify_password |-> ""]
SignupRequests ==
    {NoSignupFields @@ [method |-> "POST", button |-> b] :
        b \in {"back_name", "back_email", "back_code", "resend_code", "none"}}
    \cup {NoSignupFields @@ [method |-> "GET", button |-> b] : b \in {"fresh", "none"}}
    \cup {[NoSignupFields EXCEPT !.first_name = name[1], !.last_name = name[2]]
             @@ [method |-> "POST", button |-> "next_step"] : name \in TypedNames}
    \cup {[NoSignupFields EXCEPT !.email = e] @@ [method |-> "POST", button |-> "send_code"] :
             e \in SignupEmails}
    \cup {[NoSignupFields EXCEPT !.verify_code = c]
             @@ [method |-> "POST", button |-> "verify_code_submit"] : c \in TypedCodes}
    \cup {[NoSignupFields EXCEPT !.password = pw, !.verify_password = vpw]
             @@ [method |-> "POST", button |-> "create_account"] :
             pw \in Passwords, vpw \in Passwords \ {"weak"}}

\* lines 387-404
signup_next_step(request, s, accounts) ==
    LET s1 == Put(Put(s, "signup_first_name", request.first_name),
                  "signup_last_name", request.last_name)
    IN  IF request.first_name = "" \/ request.last_name = "" THEN Answer(s1, accounts)
        ELSE Answer(Put(s1, "signup_step", 2), accounts)

\* lines 406-475
signup_send_code(request, s, accounts, t, verify_code, mail_ok) ==
    LET email == signup_email(request.email)
        s1 == PopAll(Put(s, "signup_email", email),
                     <<"signup_code_verified", "verify_code_locked">>)
    IN  IF email = "" \/ ~signup_valid_email(email) THEN Answer(s1, accounts)
        ELSE IF email \in DOMAIN accounts THEN Answer(s1, accounts)
        ELSE IF resend_wait_seconds(s1, t) > 0 THEN Answer(s1, accounts)
        ELSE IF ~mail_ok THEN Answer(s1, accounts)
        ELSE [Answer(Put(Put(Put(Put(s1, "verify_code", verify_code),
                                 "verify_code_sent_at", t),
                             "verify_code_attempts", 0),
                         "signup_step", 3), accounts)
              EXCEPT !.mailed_to = email, !.code = verify_code]

\* lines 477-528
signup_resend_code(s, accounts, t, verify_code, mail_ok) ==
    LET email == Get(s, "signup_email", "")
    IN  IF email = "" THEN Answer(Put(s, "signup_step", 2), accounts)
        ELSE IF resend_wait_seconds(s, t) > 0 THEN Answer(s, accounts)
        ELSE IF ~mail_ok THEN Answer(s, accounts)
        ELSE [Answer(PopAll(Put(Put(Put(s, "verify_code", verify_code),
                                    "verify_code_sent_at", t),
                                "verify_code_attempts", 0),
                            <<"signup_code_verified", "verify_code_locked">>), accounts)
              EXCEPT !.mailed_to = email, !.code = verify_code]

\* lines 530-579
signup_verify_code_submit(request, s, accounts, t) ==
    LET code == request.verify_code
        format_error == code = "" \/ ~six_digits(code)
        stored_code == Get(s, "verify_code", "")
        sent_at == Get(s, "verify_code_sent_at", 0)
        attempts == Get(s, "verify_code_attempts", 0) + 1
    IN  IF Get(s, "verify_code_locked", FALSE) THEN Answer(s, accounts)
        ELSE IF Get(s, "signup_code_verified", FALSE)
        THEN Answer(Put(s, "signup_step", 4), accounts)
        ELSE IF stored_code # "" /\ sent_at # 0 /\ code # "" /\ ~format_error
        THEN IF t - sent_at > VERIFY_CODE_TTL_SECONDS
             THEN Answer(expire_verify_code(s), accounts)
             ELSE IF code # stored_code
             THEN IF attempts >= VERIFY_CODE_MAX_ATTEMPTS
                  THEN Answer(expire_verify_code(
                           Put(Put(s, "verify_code_attempts", attempts),
                               "verify_code_locked", TRUE)), accounts)
                  ELSE Answer(Put(s, "verify_code_attempts", attempts), accounts)
             ELSE [Answer(Put(Put(s, "signup_code_verified", TRUE), "signup_step", 4),
                          accounts)
                   EXCEPT !.verified_now = TRUE, !.code = code]
        ELSE Answer(s, accounts)

\* lines 581-662
signup_create_account(request, s, accounts, save_ok) ==
    LET email == Get(s, "signup_email", "")
        password == request.password
        verify_password == request.verify_password
    IN  IF ~Get(s, "signup_code_verified", FALSE)
        THEN Answer(Put(s, "signup_step", 3), accounts)
        ELSE IF password = "" \/ ~validate_password(password) THEN Answer(s, accounts)
        ELSE IF verify_password = "" \/ password # verify_password THEN Answer(s, accounts)
        ELSE IF ~signup_valid_email(email) THEN Answer(Put(s, "signup_step", 2), accounts)
        ELSE IF email \in DOMAIN accounts THEN Answer(Put(s, "signup_step", 2), accounts)
        ELSE IF ~save_ok THEN Answer(s, accounts)
        ELSE [Answer(clear_signup_session(s), Put(accounts, email, password))
              EXCEPT !.changed = email]

\* lines 274-664, past the reCAPTCHA gate: the reset on a fresh GET, the
\* stale code dropped, the step made consistent with the session, then the
\* branch of the button
signup(request, s0, accounts, t, verify_code, mail_ok, save_ok) ==
    LET s1 == IF request.method = "GET" /\ request.button = "fresh"
              THEN clear_signup_session(s0) ELSE s0
        s2 == is_code_active(s1, t)
        step0 == Get(s2, "signup_step", 1)
        step1 == IF /\ step0 > 1
                    /\ \/ Get(s2, "signup_first_name", "") = ""
                       \/ Get(s2, "signup_last_name", "") = ""
                 THEN 1 ELSE step0
        step2 == IF step1 > 2 /\ Get(s2, "signup_email", "") = "" THEN 2 ELSE step1
        step3 == IF step2 > 2 /\ Get(s2, "verify_code_sent_at", 0) = 0 THEN 2 ELSE step2
        step4 == IF step3 > 3 /\ ~Get(s2, "signup_code_verified", FALSE) THEN 3 ELSE step3
        s == Put(s2, "signup_step", step4)
    IN  IF request.method # "POST" THEN Answer(s, accounts)
        ELSE IF request.button = "back_name" THEN Answer(Put(s, "signup_step", 1), accounts)
        ELSE IF request.button = "back_email"
        THEN Answer(Put(Pop(clear_verify_session(s), "signup_code_verified"),
                        "signup_step", 2), accounts)
        ELSE IF request.button = "back_code" THEN Answer(Put(s, "signup_step", 3), accounts)
        ELSE IF request.button = "next_step" THEN signup_next_step(request, s, accounts)
        ELSE IF request.button = "send_code"
        THEN signup_send_code(request, s, accounts, t, verify_code, mail_ok)
        ELSE IF request.button = "resend_code"
        THEN signup_resend_code(s, accounts, t, verify_code, mail_ok)
        ELSE IF request.button = "verify_code_submit"
        THEN signup_verify_code_submit(request, s, accounts, t)
        ELSE IF request.button = "create_account"
        THEN signup_create_account(request, s, accounts, save_ok)
        ELSE Answer(s, accounts)

\* --------------------------------------------------------- the state machine
\* No function of the library has been called yet.
NoCall == [fn |-> "none"]
NoResult == [raised |-> FALSE]
NoRateCall == [fn |-> "none"]
NoHistory == [locks |-> 0, started |-> 0, recent |-> <<>>]
NoDisplay == [status |-> 0]
\* The run before the POST: no file processed, nothing marked, the flag
\* never observed set; stages counts the stages begun after it was.
NoRun ==
    [pc |-> "idle", files |-> 0, file |-> 0, preprocess_marked |-> FALSE,
     detection_marked |-> FALSE, stage_ok |-> TRUE, observed |-> FALSE,
     begun_after |-> 0, response |-> "none"]
NoCancel == [pc |-> "idle", phase |-> "idle", response |-> "none"]
\* No code mailed yet, no e-mail proved, no request made. The last request
\* changed the password of the account changed, and did so with_proof when
\* that e-mail was the proved one as the request came in.
NoRecovery ==
    [mailed |-> {}, proved |-> "none", changed |-> "none", with_proof |-> TRUE]


Init ==
    /\ pc = "start"
    /\ bundle = EmptyBundle
    /\ merge_key = "contours"
    /\ merged = None
    /\ gpc = "idle"
    /\ cp = DefaultRecord
    /\ cp_before = DefaultRecord
    /\ args = NoArgs
    /\ path = "none"
    /\ circles = <<>>
    /\ call = NoCall
    /\ result = NoResult
    /\ now = 1
    /\ cache = [key \in RateKeys |-> NoEntry]
    /\ cache_before = [key \in RateKeys |-> NoEntry]
    /\ rl = NoRateCall
    /\ hist = [key \in RateKeys |-> NoHistory]
    /\ cell_stats = AllCellStatistics
    /\ cell_stats_before = AllCellStatistics
    /\ display = NoDisplay
    /\ progress = "idle"
    /\ cancel_flag = FALSE
    /\ run = NoRun
    /\ canc = NoCancel
    /\ clock = 1
    /\ users = [email \in Registered |-> "old"]
    /\ session = EmptyState
    /\ recovery = NoRecovery
    /\ signup_session = EmptyState
    /\ registration = NoRecovery

FindContours ==
    /\ pc = "start"
    /\ \E chs \in SUBSET Channels, det \in Detections :
           bundle' = find_contours(KeysOf(chs), det)
    /\ pc' = "found"
    /\ UNCHANGED <<merge_key, merged>>
    /\ UNCHANGED gfp_vars
    /\ UNCHANGED call_vars
    /\ UNCHANGED web_vars

MergeContour ==
    /\ pc = "found"
    /\ \E key \in MergeKeys :
           /\ merge_key' = key
           /\ merged' = merge_contour(bundle[BestKey(key)], bundle[key])
    /\ pc' = "merged"
    /\ UNCHANGED bundle
    /\ UNCHANGED gfp_vars
    /\ UNCHANGED call_vars
    /\ UNCHANGED web_vars

Returns(a, r) ==
    /\ args' = a
    /\ cp' = r.cp
    /\ path' = r.path
    /\ circles' = r.circles

\* One call of GFPDot.calculate_statistics on the record.
CalculateStatistics ==
    /\ gpc = "idle"
    /\ \E a \in CallArgs :
           Returns(a, calculate_statistics(cp, a))
    /\ cp_before' = cp
    /\ gpc' = "returned"
    /\ UNCHANGED contour_vars
    /\ UNCHANGED call_vars
    /\ UNCHANGED web_vars

\* The call is over: its arguments are gone, the record stays.
Release ==
    /\ gpc = "returned"
    /\ gpc' = "idle"
    /\ args' = NoArgs
    /\ cp_before' = cp
    /\ path' = "none"
    /\ circles' = <<>>
    /\ UNCHANGED cp
    /\ UNCHANGED contour_vars
    /\ UNCHANGED call_vars
    /\ UNCHANGED web_vars

NextContours == FindContours \/ MergeContour
NextGFP == CalculateStatistics \/ Release

\* The caller takes the result: the library is ready for the next call.
ReturnToCaller ==
    /\ call.fn # "none"
    /\ call' = NoCall
    /\ result' = NoResult
    /\ UNCHANGED contour_vars
    /\ UNCHANGED gfp_vars
    /\ UNCHANGED web_vars

\* One call of find_contours, of either package, on a GrayImageSet the
\* preprocessor can build (the keys of a channel are written together).
FindContoursCall ==
    /\ call.fn = "none"
    /\ \E package \in Packages, chs \in SUBSET Channels, det \in Detections,
          m \in MethodInputs :
           /\ package = "cytocv" => m = ""
           /\ call' = [fn |-> "find_contours", package |-> package,
                       keys |-> KeysOf(chs), det |-> det, method |-> m]
           /\ result' = find_contours_of(package, KeysOf(chs), det, m)
    /\ UNCHANGED contour_vars
    /\ UNCHANGED gfp_vars
    /\ UNCHANGED web_vars

NextDetect == FindContoursCall \/ ReturnToCaller

\* One call of preprocess_image_to_gray.
PreprocessCall ==
    /\ call.fn = "none"
    /\ \E images \in SUBSET InputChannels, kdev \in KdevInputs, ksize \in KsizeInputs :
           /\ call' = [fn |-> "preprocess_image_to_gray", images |-> images,
                       kdev |-> kdev, ksize |-> ksize]
           /\ result' = preprocess_image_to_gray(images, kdev, ksize)
    /\ UNCHANGED contour_vars
    /\ UNCHANGED gfp_vars
    /\ UNCHANGED web_vars

NextPreprocess == PreprocessCall \/ ReturnToCaller

\* One call of validate_dv_file.
ValidateCall ==
    /\ call.fn = "none"
    /\ \E file \in DVFiles, options \in DVValidationOptions :
           /\ call' = [fn |-> "validate_dv_file", file |-> file, options |-> options]
           /\ result' = Returned(validate_dv_file(file, options))
    /\ UNCHANGED contour_vars
    /\ UNCHANGED gfp_vars
    /\ UNCHANGED web_vars

NextDV == ValidateCall \/ ReturnToCaller

\* One call of build_requirement_summary.
RequirementSummaryCall ==
    /\ call.fn = "none"
    /\ \E selected \in Selections :
           /\ call' = [fn |-> "build_requirement_summary", selected_plugins |-> selected]
           /\ result' = Returned(build_requirement_summary(selected))
    /\ UNCHANGED contour_vars
    /\ UNCHANGED gfp_vars
    /\ UNCHANGED web_vars

NextRequirements == RequirementSummaryCall \/ ReturnToCaller

\* One call of build_dv_error_messages.
BuildMessagesCall ==
    /\ call.fn = "none"
    /\ \E options \in DVValidationOptions : \E failures \in FailureLists(options) :
           /\ call' = [fn |-> "build_dv_error_messages", failures |-> failures,
                       options |-> options]
           /\ result' = Returned(build_dv_error_messages(failures, options))
    /\ UNCHANGED contour_vars
    /\ UNCHANGED gfp_vars
    /\ UNCHANGED web_vars

\* The upload view: it validates files and reports the failures.
NextMessages == ValidateCall \/ BuildMessagesCall \/ ReturnToCaller
\* ------------------------------------------------ the login rate limiter
\* A second passes.
Tick ==
    /\ now < MaxTime
    /\ now' = now + 1
    /\ rl' = NoRateCall
    /\ UNCHANGED <<cache, cache_before, hist>>
    /\ UNCHANGED outside_rl

\* register_failure and check_rate_limit in sliding mode.
SlidingRegister ==
    /\ \E keys \in KeyLists :
           /\ cache' = register_failure(cache, keys, MaxAttempts, WindowSeconds,
                                        LockoutSchedule, "sliding", now)
           /\ rl' = [fn |-> "register_failure", mode |-> "sliding", keys |-> keys]
    /\ cache_before' = cache
    /\ UNCHANGED <<now, hist>>
    /\ UNCHANGED outside_rl

SlidingCheck ==
    /\ \E keys \in KeyLists :
           LET r == check_rate_limit(cache, keys, MaxAttempts, WindowSeconds,
                                     LockoutSchedule, "sliding", now)
           IN  /\ cache' = r.cache
               /\ rl' = [fn |-> "check_rate_limit", mode |-> "sliding", keys |-> keys,
                         limited |-> r.limited, retry_after |-> r.retry_after,
                         level |-> r.level]
    /\ cache_before' = cache
    /\ UNCHANGED <<now, hist>>
    /\ UNCHANGED outside_rl

\* Whether the key is locked, as register_failure and check_rate_limit see it.
LockedAt(c, key, t) == Get(get_state(c, key, t, WindowSeconds, "lockout"), "locked_until", 0) > t

\* register_failure in lockout mode.  hist keeps, for each key, how many
\* locks have started, when the last one started, and the times of the
\* failures registered since it ended that lie within the window; the call
\* record keeps how many of these, this failure included, there are.
LockoutRegister ==
    /\ \E keys \in KeyLists :
           LET in_call == {keys[k] : k \in 1..Len(keys)}
               after == register_failure(cache, keys, MaxAttempts, WindowSeconds,
                                         LockoutSchedule, "lockout", now)
               counts(key) == key \in in_call /\ ~LockedAt(cache, key, now)
               recent(key) ==
                   Append(SelectSeq(hist[key].recent, LAMBDA ts : now - ts <= WindowSeconds), now)
           IN  /\ cache' = after
               /\ rl' = [fn |-> "register_failure", mode |-> "lockout", keys |-> keys,
                         counted |-> [key \in RateKeys |->
                                         IF counts(key) THEN Len(recent(key)) ELSE -1]]
               /\ hist' = [key \in RateKeys |->
                              IF ~counts(key) THEN hist[key]
                              ELSE IF LockedAt(after, key, now)
                              THEN [locks |-> hist[key].locks + 1, started |-> now,
                                    recent |-> <<>>]
                              ELSE [hist[key] EXCEPT !.recent = recent(key)]]
    /\ cache_before' = cache
    /\ UNCHANGED now
    /\ UNCHANGED outside_rl

LockoutCheck ==
    /\ \E keys \in KeyLists :
           LET r == check_rate_limit(cache, keys, MaxAttempts, WindowSeconds,
                                     LockoutSchedule, "lockout", now)
           IN  /\ cache' = r.cache
               /\ rl' = [fn |-> "check_rate_limit", mode |-> "lockout", keys |-> keys,
                         limited |-> r.limited, retry_after |-> r.retry_after,
                         level |-> r.level]
    /\ cache_before' = cache
    /\ UNCHANGED <<now, hist>>
    /\ UNCHANGED outside_rl

NextSliding == Tick \/ SlidingRegister \/ SlidingCheck
NextLockout == Tick \/ LockoutRegister \/ LockoutCheck

\* One request for a media file.
ServeMediaCall ==
    /\ call.fn = "none"
    /\ \E requester \in Requesters, relative_path \in RelativePaths :
           /\ call' = [fn |-> "serve_media", user |-> requester,
                       relative_path |-> relative_path]
           /\ result' = Returned(serve_media(requester, relative_path))
    /\ UNCHANGED contour_vars
    /\ UNCHANGED gfp_vars
    /\ UNCHANGED web_vars

NextMedia == ServeMediaCall \/ ReturnToCaller

\* One display_cell request, from its first line to its response.
DisplayCell ==
    /\ \E request \in DisplayRequests :
           LET answer == display_cell(request, cell_stats)
           IN  /\ cell_stats' = answer.cell_stats
               /\ display' = [user |-> request.user, status |-> answer.status]
    /\ cell_stats_before' = cell_stats
    /\ UNCHANGED outside_display

NextDisplay == DisplayCell

\* ------------------------------------ pre_process_step and cancel_progress
\* Each action is one access to the progress file or the cancel file, or one
\* stage; the two requests are served by different workers and interleave.
\* line 163: the POST begins with clear_cancelled(uuids)
RunStart ==
    /\ run.pc = "idle"
    /\ \E files \in 1..MaxFiles :
           run' = [run EXCEPT !.pc = "check_file", !.files = files, !.file = 1]
    /\ cancel_flag' = FALSE
    /\ UNCHANGED <<progress, canc>>
    /\ UNCHANGED outside_progress

\* The run reads the cancel flag; found set, it goes to the cancelled exit.
Observe(next) ==
    run' = [run EXCEPT !.pc = IF cancel_flag THEN "write_cancelled" ELSE next,
                       !.observed = @ \/ cancel_flag]
\* A stage is begun: counted when the run has seen the flag set before.
Begin(r) == [r EXCEPT !.begun_after = IF r.observed THEN 1 ELSE @]

\* line 228: cancel_check() at the head of the loop over uuid_list
RunCheckFile ==
    /\ run.pc = "check_file"
    /\ Observe(IF run.preprocess_marked THEN "preprocess" ELSE "mark_preprocess")
    /\ UNCHANGED <<progress, cancel_flag, canc>>
    /\ UNCHANGED outside_progress

\* lines 235-237
RunMarkPreprocess ==
    /\ run.pc = "mark_preprocess"
    /\ progress' = "Preprocessing Images"
    /\ run' = [run EXCEPT !.pc = "preprocess", !.preprocess_marked = TRUE]
    /\ UNCHANGED <<cancel_flag, canc>>
    /\ UNCHANGED outside_progress

\* lines 238-243: preprocess_images returns a path and a list, or nothing
\* (it failed, or its own cancel_check() found the flag set).
RunPreprocess ==
    /\ run.pc = "preprocess"
    /\ \E ok \in BOOLEAN :
           run' = [Begin(run) EXCEPT !.pc = "check_preprocess", !.stage_ok = ok]
    /\ UNCHANGED <<progress, cancel_flag, canc>>
    /\ UNCHANGED outside_progress

\* line 244: cancel_check() or not prep_path or not prep_list
RunCheckPreprocess ==
    /\ run.pc = "check_preprocess"
    /\ IF ~cancel_flag /\ ~run.stage_ok
       THEN run' = [run EXCEPT !.pc = "write_cancelled"]
       ELSE Observe(IF run.detection_marked THEN "predict" ELSE "mark_detection")
    /\ UNCHANGED <<progress, cancel_flag, canc>>
    /\ UNCHANGED outside_progress

\* lines 250-252
RunMarkDetection ==
    /\ run.pc = "mark_detection"
    /\ progress' = "Detecting Cells"
    /\ run' = [run EXCEPT !.pc = "predict", !.detection_marked = TRUE]
    /\ UNCHANGED <<cancel_flag, canc>>
    /\ UNCHANGED outside_progress

\* lines 253-258: predict_images returns a result or None
RunPredict ==
    /\ run.pc = "predict"
    /\ \E ok \in BOOLEAN :
           run' = [Begin(run) EXCEPT !.pc = "check_predict", !.stage_ok = ok]
    /\ UNCHANGED <<progress, cancel_flag, canc>>
    /\ UNCHANGED outside_progress

\* line 259: prediction_result is None or cancel_check(); then the next
\* file, or the redirect of line 264 after the last one
RunCheckPredict ==
    /\ run.pc = "check_predict"
    /\ IF ~run.stage_ok
       THEN run' = [run EXCEPT !.pc = "write_cancelled"]
       ELSE IF cancel_flag THEN Observe("write_cancelled")
       ELSE IF run.file < run.files
       THEN run' = [run EXCEPT !.pc = "check_file", !.file = @ + 1]
       ELSE run' = [run EXCEPT !.pc = "done", !.response = "redirect"]
    /\ UNCHANGED <<progress, cancel_flag, canc>>
    /\ UNCHANGED outside_progress

\* lines 229, 245, 260: write_progress(uuids, "Cancelled")
RunWriteCancelled ==
    /\ run.pc = "write_cancelled"
    /\ progress' = "Cancelled"
    /\ run' = [run EXCEPT !.pc = "clear_cancelled"]
    /\ UNCHANGED <<cancel_flag, canc>>
    /\ UNCHANGED outside_progress

\* lines 230-231, 246-247, 261-262: clear_cancelled(uuids), cancel_response()
RunClearCancelled ==
    /\ run.pc = "clear_cancelled"
    /\ cancel_flag' = FALSE
    /\ run' = [run EXCEPT !.pc = "done", !.response = "cancelled"]
    /\ UNCHANGED <<progress, canc>>
    /\ UNCHANGED outside_progress

\* lines 334-335: the cancel request arrives while the run is in progress
\* and reads the phase
CancelRead ==
    /\ canc.pc = "idle"
    /\ run.pc \notin {"idle", "done"}
    /\ canc' = [canc EXCEPT !.pc = "decide", !.phase = progress]
    /\ UNCHANGED <<progress, cancel_flag, run>>
    /\ UNCHANGED outside_progress

\* lines 336-337 and 340: by the phase read, write "Cancelled" or set the flag
CancelDecide ==
    /\ canc.pc = "decide"
    /\ IF canc.phase \in {"idle", "Completed", "Cancelled"}
       THEN /\ progress' = "Cancelled"
            /\ canc' = [canc EXCEPT !.pc = "clear_cancelled"]
            /\ UNCHANGED cancel_flag
       ELSE /\ cancel_flag' = TRUE
            /\ canc' = [canc EXCEPT !.pc = "write_cancelling"]
            /\ UNCHANGED progress
    /\ UNCHANGED run
    /\ UNCHANGED outside_progress

\* lines 338-339
CancelClearCancelled ==
    /\ canc.pc = "clear_cancelled"
    /\ cancel_flag' = FALSE
    /\ canc' = [canc EXCEPT !.pc = "done", !.response = "cancelled"]
    /\ UNCHANGED <<progress, run>>
    /\ UNCHANGED outside_progress

\* lines 341-342
CancelWriteCancelling ==
    /\ canc.pc = "write_cancelling"
    /\ progress' = "Cancelling"
    /\ canc' = [canc EXCEPT !.pc = "done", !.response = "cancelling"]
    /\ UNCHANGED <<cancel_flag, run>>
    /\ UNCHANGED outside_progress

\* ------------------------------------------------------- the account views
\* Time passes between two requests.
Wait ==
    /\ \E seconds \in ClockSteps :
           /\ clock + seconds <= MaxClock
           /\ clock' = clock + seconds
    /\ UNCHANGED users
    /\ UNCHANGED recovery_vars
    /\ UNCHANGED outside_recovery

\* The e-mail for which the session holds a proof after a request: the
\* session's e-mail when a code was compared equal just now and a code was
\* mailed to that e-mail before (mailed: the e-mails codes were mailed to),
\* the one proved before while the session's e-mail stays that one.
ProvedAfter(proved, mailed, answer, email_key) ==
    LET email == Get(answer.session, email_key, "")
    IN  IF answer.verified_now
        THEN IF email \in mailed THEN email ELSE "none"
        ELSE IF proved = email THEN proved ELSE "none"

\* What a request meets outside the view: the code drawn for it and whether
\* the mail is sent (the buttons that mail), whether the account is saved
\* (the last button).
Chances(button, mailing, saving) ==
    IF button \in mailing
    THEN {[verify_code |-> c, mail_ok |-> TRUE, save_ok |-> TRUE] : c \in Codes}
         \cup {[verify_code |-> "", mail_ok |-> FALSE, save_ok |-> TRUE]}
    ELSE IF button = saving
    THEN {[verify_code |-> "", mail_ok |-> TRUE, save_ok |-> ok] : ok \in BOOLEAN}
    ELSE {[verify_code |-> "", mail_ok |-> TRUE, save_ok |-> TRUE]}

\* One request of the recovery flow in the session.
RecoveryRequest ==
    /\ \E request \in RecoveryRequests :
       \E chance \in Chances(request.button, {"send_code", "resend_code"}, "reset_password") :
           LET answer == handle_password_recovery(request, session, users, clock,
                                                  chance.verify_code, chance.mail_ok,
                                                  chance.save_ok)
               mailed == IF answer.mailed_to = "none" THEN recovery.mailed
                         ELSE recovery.mailed \cup {answer.mailed_to}
           IN  /\ session' = answer.session
               /\ users' = answer.users
               /\ recovery' = [mailed |-> mailed,
                               proved |-> ProvedAfter(recovery.proved, recovery.mailed, answer,
                                                      "recovery_email"),
                               changed |-> answer.changed,
                               with_proof |-> answer.changed \in {"none", recovery.proved}]
    /\ UNCHANGED clock
    /\ UNCHANGED outside_recovery

NextRecovery == Wait \/ RecoveryRequest

\* One request of the signup in the session.
SignupRequest ==
    /\ \E request \in SignupRequests :
       \E chance \in Chances(request.button, {"send_code", "resend_code"}, "create_account") :
           LET answer == signup(request, signup_session, users, clock,
                                chance.verify_code, chance.mail_ok, chance.save_ok)
               mailed == IF answer.mailed_to = "none" THEN registration.mailed
                         ELSE registration.mailed \cup {answer.mailed_to}
           IN  /\ signup_session' = answer.session
               /\ users' = answer.users
               /\ registration' =
                      [mailed |-> mailed,
                       proved |-> ProvedAfter(registration.proved, registration.mailed,
                                              answer, "signup_email"),
                       changed |-> answer.changed,
                       with_proof |-> answer.changed \in {"none", registration.proved}]
    /\ UNCHANGED clock
    /\ UNCHANGED outside_signup

NextSignup == Wait \/ SignupRequest

NextProgress ==
    \/ RunStart \/ RunCheckFile \/ RunMarkPreprocess \/ RunPreprocess
    \/ RunCheckPreprocess \/ RunMarkDetection \/ RunPredict \/ RunCheckPredict
    \/ RunWriteCancelled \/ RunClearCancelled
    \/ CancelRead \/ CancelDecide \/ CancelClearCancelled \/ CancelWriteCancelling
Next == NextContours \/ NextGFP \/ NextDetect \/ NextPreprocess \/ NextDV
        \/ NextRequirements \/ NextMessages \/ NextSliding \/ NextLockout
        \/ NextMedia \/ NextDisplay \/ NextProgress \/ NextRecovery \/ NextSignup

SpecContours == Init /\ [][NextContours]_vars
SpecGFP == Init /\ [][NextGFP]_vars
SpecDetect == Init /\ [][NextDetect]_vars
SpecPreprocess == Init /\ [][NextPreprocess]_vars
SpecDV == Init /\ [][NextDV]_vars
SpecRequirements == Init /\ [][NextRequirements]_vars
SpecMessages == Init /\ [][NextMessages]_vars
SpecSliding == Init /\ [][NextSliding]_vars
SpecLockout == Init /\ [][NextLockout]_vars
SpecMedia == Init /\ [][NextMedia]_vars
SpecDisplay == Init /\ [][NextDisplay]_vars
SpecProgress == Init /\ [][NextProgress]_vars
SpecRecovery == Init /\ [][NextRecovery]_vars
SpecSignup == Init /\ [][NextSignup]_vars
Spec == Init /\ [][Next]_vars

\* ------------------------------------------- properties: contour pipeline
\* The shortlist and raw list of the channel that was merged, and the two
\* contours a two-entry shortlist selects.
Best == bundle[BestKey(merge_key)]
Raw == bundle[merge_key]
TwoEntry == pc = "merged" /\ Len(Best) = 2
ContourA == At(Raw, Best[1])
ContourB == At(Raw, Best[2])
SplicePair == closest_pair(ContourA, ContourB)
Rotation(c, j) == [k \in 1..Len(c) |-> At(c, (j + k - 1) % Len(c))]
Area2At(r, i) == contourArea2(At(r, i))

\* C1: for every two-entry shortlist the merged sequence has as many points
\* as the two selected contours together.
C1_MergedLengthIsSum ==
    TwoEntry => /\ ~merged.none
                /\ Len(merged.pts) = Len(ContourA) + Len(ContourB)

\* C2: for a two-entry shortlist the merged sequence is A in its order with
\* the whole of B, rotated to start at p2, inserted exactly once, right
\* after p1.
C2_SplicedExactlyOnce ==
    TwoEntry =>
        \E a \in 1..Len(ContourA) :
            /\ ContourA[a] = SplicePair.pt1
            /\ merged.pts = SubSeq(ContourA, 1, a)
                            \o Rotation(ContourB, SplicePair.i)
                            \o SubSeq(ContourA, a + 1, Len(ContourA))

\* C3: the splice pair merge_contour uses is a pair (p1 in A, p2 in B) whose
\* distance no other pair of points of A and B undercuts.
C3_SplicePairIsClosest ==
    TwoEntry =>
        LET A == ContourA
            B == ContourB
            pair == SplicePair
            least == Dist2(pair.pt1, pair.pt2)
        IN  /\ pair.found
            /\ \E a \in 1..Len(A) : A[a] = pair.pt1
            /\ pair.i \in 0..(Len(B) - 1)
            /\ At(B, pair.i) = pair.pt2
            /\ \A a \in 1..Len(A), b \in 1..Len(B) : least <= Dist2(A[a], B[b])

\* A merge whose closest pair is neither at the first point of A nor at the
\* first point of B, with a strictly farther pair before it in scan order.
C3_Witness ==
    /\ TwoEntry
    /\ SplicePair.pt1 # ContourA[1]
    /\ SplicePair.i # 0
    /\ Dist2(SplicePair.pt1, SplicePair.pt2) < Dist2(ContourA[1], ContourB[1])

\* C4: an empty shortlist merges to None, a one-entry shortlist to the
\* contour it names, unchanged.
C4_ZeroOrOneIndex ==
    pc = "merged" =>
        /\ Len(Best) = 0 => merged.none
        /\ Len(Best) = 1 => ~merged.none /\ merged.pts = At(Raw, Best[1])

\* A merge of a one-entry shortlist naming a contour of several points.
C4_Witness ==
    /\ pc = "merged"
    /\ Len(Best) = 1
    /\ ~merged.none
    /\ Len(merged.pts) > 1

\* C5: every shortlist of a bundle has at most two entries, all distinct
\* valid indices into the raw list of its key, and is empty when that list
\* is empty.
C5_ShortlistsValid ==
    pc # "start" =>
        \A key \in MergeKeys :
            LET b == bundle[BestKey(key)]
                r == bundle[key]
            IN  /\ Len(b) <= 2
                /\ \A k \in 1..Len(b) : b[k] \in 0..(Len(r) - 1)
                /\ \A k, l \in 1..Len(b) : k # l => b[k] # b[l]
                /\ Len(r) = 0 => Len(b) = 0

\* A bundle with three boundary contours, two of them shortlisted, and a
\* non-empty filtered fine DAPI list with its shortlist.
C5_Witness ==
    /\ pc = "found"
    /\ Len(bundle.contours) = 3
    /\ Len(bundle.bestContours) = 2
    /\ Len(bundle.contours_dapi_3) > 0
    /\ Len(bundle.bestContours_dapi_3) > 0

\* C6: a shortlist holds the (at most two) largest contours of its list,
\* larger area first and, at equal area, lower index first; one contour
\* gives <<0>>, none gives <<>>.
C6_LargestTwoStable ==
    pc # "start" =>
        \A key \in MergeKeys :
            LET b == bundle[BestKey(key)]
                r == bundle[key]
                Before(i, j) == \/ Area2At(r, i) > Area2At(r, j)
                                \/ Area2At(r, i) = Area2At(r, j) /\ i < j
            IN  /\ Len(b) = (IF Len(r) < 2 THEN Len(r) ELSE 2)
                /\ \A k \in 1..Len(b) : b[k] \in 0..(Len(r) - 1)
                /\ Len(b) = 2 => Before(b[1], b[2])
                /\ \A k \in 1..Len(b) :
                       \A j \in 0..(Len(r) - 1) :
                           (\A l \in 1..Len(b) : b[l] # j) => Before(b[k], j)
                /\ Len(r) = 1 => b = <<0>>
                /\ Len(r) = 0 => b = <<>>

\* A three-contour list in which detection order decides: the second
\* shortlisted contour has the same area as one that is left out.
C6_Witness ==
    /\ pc = "found"
    /\ Len(bundle.contours) = 3
    /\ Len(bundle.bestContours) = 2
    /\ \E j \in 0..2 :
           /\ j # bundle.bestContours[1]
           /\ j # bundle.bestContours[2]
           /\ Area2At(bundle.contours, j) = Area2At(bundle.contours, bundle.bestContours[2])
    /\ Area2At(bundle.contours, bundle.bestContours[1])
         > Area2At(bundle.contours, bundle.bestContours[2])

\* ------------------------------------------------- properties: GFP-dot
\* What the last call was given: the two red centers, the green centers,
\* the distance threshold in force, and the branch these select.
RedCenters == get_contour_center(<<args.dot_contours[1], args.dot_contours[2]>>)
GreenCenters == Values(get_contour_center(args.contours_gfp), Len(args.contours_gfp))
ThresholdInForce == IF args.gfp_distance.val >= 0 THEN args.gfp_distance.val ELSE 37
Called(rc) ==
    /\ gpc = "returned"
    /\ args.gfp_distance.num
    /\ args.has_key
    /\ Len(args.dot_contours) > 1
    /\ {0, 1} \subseteq DOMAIN rc
Far(rc) == Dist2(rc[0], rc[1]) > ThresholdInForce * ThresholdInForce
Undrawable(gc) == Len(gc) > 0 /\ ~args.image_ok
Near(r, gc) == Cardinality({k \in 1..Len(gc) : Dist2(r, gc[k]) <= 13 * 13})
TwoRedCenters == Called(RedCenters)
BranchA == LET rc == RedCenters IN Called(rc) /\ Far(rc)
BranchB == LET rc == RedCenters IN Called(rc) /\ ~Far(rc)
DrawFails == Undrawable(GreenCenters)
NearCount(i) == Near(RedCenters[i], GreenCenters)
BetweenCount ==
    LET r == <<RedCenters[1][1] - RedCenters[0][1], RedCenters[1][2] - RedCenters[0][2]>>
        v(k) == <<GreenCenters[k][1] - RedCenters[0][1], GreenCenters[k][2] - RedCenters[0][2]>>
        cross(k) == v(k)[2] * r[1] - v(k)[1] * r[2]
        dot(k) == v(k)[1] * r[1] + v(k)[2] * r[2]
    IN  Cardinality({k \in 1..Len(GreenCenters) :
                        /\ Abs(cross(k)) <= 50
                        /\ 0 <= dot(k)
                        /\ dot(k) <= r[1] * r[1] + r[2] * r[2]})

\* C7: in Branch A the category follows, in this order: both counts >= 1
\* gives 1; counts {1, 0} give 2; counts {2, 0} give 3; anything else 4.
C7_BranchACategory ==
    LET rc == RedCenters
        gc == GreenCenters
    IN  (Called(rc) /\ Far(rc) /\ ~Undrawable(gc)) =>
            LET n0 == Near(rc[0], gc)
                n1 == Near(rc[1], gc)
            IN  cp.category_GFP_dot =
                    (IF n0 >= 1 /\ n1 >= 1 THEN 1
                     ELSE IF {n0, n1} = {1, 0} THEN 2
                     ELSE IF {n0, n1} = {2, 0} THEN 3
                     ELSE 4)

\* A Branch A call with three green dots at one red dot and none at the
\* other, on a record that held category 1: the category becomes 4.
C7_Witness ==
    /\ BranchA
    /\ ~DrawFails
    /\ {NearCount(0), NearCount(1)} = {3, 0}
    /\ cp_before.category_GFP_dot = 1
    /\ cp.category_GFP_dot = 4

\* C8: in Branch B biorientation is 0, 1 or 2 as zero, one, or two or more
\* green centers g have |cross(g - r0, r1 - r0)| <= 50 and
\* 0 <= dot(g - r0, r1 - r0) <= |r1 - r0|^2.
C8_BiorientationByCount ==
    BranchB =>
        cp.biorientation = (IF BetweenCount = 0 THEN 0 ELSE IF BetweenCount = 1 THEN 1 ELSE 2)

\* C9: a call with fewer than two red-dot contours returns without raising
\* and leaves category 4 and biorientation 0 on the record.
C9_FewerThanTwoSetsNA ==
    (/\ gpc = "returned"
     /\ args.gfp_distance.num
     /\ args.has_key
     /\ Len(args.dot_contours) < 2)
    => /\ path # "raised"
       /\ cp = [category_GFP_dot |-> 4, biorientation |-> 0]

\* C10: no call lets an exception out, and a call in which a step fails
\* (the bundle has no red-dot entry, gfp_distance cannot be compared, a red
\* contour has no center, the circle cannot be drawn) leaves category 4 and
\* biorientation 0.
StepFails ==
    \/ ~args.gfp_distance.num
    \/ ~args.has_key
    \/ /\ Len(args.dot_contours) > 1
       /\ ~({0, 1} \subseteq DOMAIN RedCenters)
    \/ BranchA /\ DrawFails
C10_NeverPropagates ==
    gpc = "returned" =>
        /\ path # "raised"
        /\ StepFails => cp = [category_GFP_dot |-> 4, biorientation |-> 0]

\* C11: a call with two red centers that runs to its end writes only the
\* field of its branch: Branch B leaves category_GFP_dot as it was before
\* the call, Branch A leaves biorientation as it was.
C11_BranchWritesOwnField ==
    LET rc == RedCenters
    IN  Called(rc) =>
            /\ ~Far(rc) => cp.category_GFP_dot = cp_before.category_GFP_dot
            /\ (Far(rc) /\ ~Undrawable(GreenCenters)) =>
                   cp.biorientation = cp_before.biorientation

\* A Branch B call on a record that held category 1 and biorientation 0:
\* biorientation becomes 2, the category is still 1.
C11_Witness ==
    /\ BranchB
    /\ cp_before = [category_GFP_dot |-> 1, biorientation |-> 0]
    /\ cp = [category_GFP_dot |-> 1, biorientation |-> 2]

\* C12: a call with a negative gfp_distance ends exactly as the same call
\* with gfp_distance 37 (same branch, same record, same drawing); a
\* non-negative gfp_distance, 0 included, is the threshold compared with
\* the distance of the red centers.
C12_NegativeDistanceIsDefault ==
    (gpc = "returned" /\ args.gfp_distance.num) =>
        IF args.gfp_distance.val < 0
        THEN [cp |-> cp, path |-> path, circles |-> circles]
                 = calculate_statistics(cp_before, [args EXCEPT !.gfp_distance = Number(37)])
        ELSE LET rc == RedCenters
             IN  Called(rc) =>
                     IF Dist2(rc[0], rc[1]) > args.gfp_distance.val * args.gfp_distance.val
                     THEN path \in {"A", "caught"}
                     ELSE path = "B"

\* A call with gfp_distance -1 and red centers 50.6 apart: further than 37,
\* so Branch A ran and wrote category 1 over category 4.
C12_Witness ==
    /\ gpc = "returned"
    /\ args.gfp_distance = Number(-1)
    /\ TwoRedCenters
    /\ Dist2(RedCenters[0], RedCenters[1]) = 2561
    /\ path = "A"
    /\ cp_before.category_GFP_dot = 4
    /\ cp.category_GFP_dot = 1

\* C13: from the default record (category 4, biorientation 0), after any
\* sequence of calls category_GFP_dot is in {1, 2, 3, 4} and biorientation
\* is in {0, 1, 2}.
C13_RecordInRange ==
    /\ cp.category_GFP_dot \in {1, 2, 3, 4}
    /\ cp.biorientation \in {0, 1, 2}

\* A Branch B call with three green centers between the red centers, after
\* an earlier call left category 3: the record holds 3 and 2.
C13_Witness ==
    /\ BranchB
    /\ BetweenCount = 3
    /\ cp = [category_GFP_dot |-> 3, biorientation |-> 2]

\* ---------------------------------------------- properties: find_contours
\* The lists of the bundle that belong to each channel.
ListsOf(ch) ==
    CASE ch = "mCherry" -> {"dot_contours", "contours", "contours_mcherry",
                            "bestContours", "bestContours_mcherry"}
      [] ch = "DAPI" -> {"contours_dapi", "contours_dapi_3",
                         "bestContours_dapi", "bestContours_dapi_3"}
      [] ch = "GFP" -> {"contours_gfp"}

\* C14: whatever derivatives the GrayImageSet holds, find_contours returns a
\* bundle and does not raise; every list of a channel whose derivatives are
\* absent is empty, and every list of a channel that is present is what the
\* same call gives when all channels are present.
C14_AbsentChannelsSkipped ==
    call.fn = "find_contours" =>
        /\ ~result.raised
        /\ LET full == find_contours_of(call.package, KeysOf(Channels),
                                        call.det, call.method).value
           IN  \A ch \in Channels : \A list \in ListsOf(ch) :
                   result.value[list] =
                       IF KeysOf({ch}) \subseteq call.keys THEN full[list] ELSE <<>>

\* ----------------------------------- properties: preprocess_image_to_gray
Preprocessed == call.fn = "preprocess_image_to_gray"
CoarseKeys == {"gray_mcherry", "gray_dapi"}

\* C15: whatever channels the mapping holds, preprocess_image_to_gray
\* returns, and the keys of its GrayImageSet are exactly GFP and GFP_no_bg
\* when GFP is given, gray_mcherry_3 and gray_mcherry when mCherry is,
\* gray_dapi_3 and gray_dapi when DAPI is; DIC and unknown channels add none.
C15_KeysOfChannelsPresent ==
    Preprocessed =>
        /\ ~result.raised
        /\ DOMAIN result.value =
               (IF "GFP" \in call.images THEN {"GFP", "GFP_no_bg"} ELSE {})
               \cup (IF "mCherry" \in call.images THEN {"gray_mcherry_3", "gray_mcherry"} ELSE {})
               \cup (IF "DAPI" \in call.images THEN {"gray_dapi_3", "gray_dapi"} ELSE {})

\* A call with GFP, DIC and an unknown channel only: the GFP keys and no
\* other.
C15_Witness ==
    /\ Preprocessed
    /\ call.images = {"GFP", "DIC", "Cy5"}
    /\ ~result.raised
    /\ DOMAIN result.value = {"GFP", "GFP_no_bg"}

\* C16: with an even ksize k the output is that of ksize k + 1; an odd
\* ksize is the kernel size of the coarse blur as given; the kernel size of
\* the coarse blur is odd in every case.
C16_KsizeCoercedOdd ==
    Preprocessed =>
        /\ call.ksize % 2 = 0 =>
               result = preprocess_image_to_gray(call.images, call.kdev, call.ksize + 1)
        /\ \A key \in CoarseKeys \cap DOMAIN result.value :
               /\ result.value[key].ksize % 2 = 1
               /\ call.ksize % 2 = 1 => result.value[key].ksize = call.ksize

\* A call with ksize 12 on mCherry and DAPI: both coarse blurs are 13 x 13.
C16_Witness ==
    /\ Preprocessed
    /\ call.ksize = 12
    /\ CoarseKeys \subseteq DOMAIN result.value
    /\ \A key \in CoarseKeys : result.value[key].ksize = 13

\* ------------------------------------------------ properties: DV validation
Validated == call.fn = "validate_dv_file"
\* The channel each raw name stands for.
StandsFor(name) ==
    CASE name = N_w1DIC -> "DIC"
      [] name = N_mcherry -> "mCherry"
      [] name = N_GFP -> "GFP"
      [] name = N_DAPI -> "DAPI"
      [] OTHER -> "unknown"
\* The layer count of the file can be read and passes the layer check, if
\* that check is enabled.
LayersPass ==
    /\ call.file.recognized
    /\ call.file.layers.num
    /\ call.options.enforce_layer_count => call.file.layers.val = 4
RequiredOf(options) ==
    options.required_channels
    \cup (IF options.enforce_wavelengths THEN {"DIC", "DAPI", "mCherry", "GFP"} ELSE {})
Avail ==
    {StandsFor(n) : n \in {m \in DOMAIN call.file.config :
                              /\ StandsFor(m) # "unknown"
                              /\ call.file.config[m].num
                              /\ 0 <= call.file.config[m].val
                              /\ call.file.config[m].val < call.file.layers.val}}

Summarized == call.fn = "build_requirement_summary"
\* The channels the known plugins of the selection, and the plugins these
\* depend on, require.
RequiredBySelection ==
    LET known == {call.selected_plugins[k] : k \in 1..Len(call.selected_plugins)}
                 \cap DOMAIN PLUGIN_DEFINITIONS
        RECURSIVE WithDeps(_)
        WithDeps(ids) ==
            LET more == ids \cup ((UNION {PLUGIN_DEFINITIONS[id].required_plugins : id \in ids})
                                  \cap DOMAIN PLUGIN_DEFINITIONS)
            IN  IF more = ids THEN ids ELSE WithDeps(more)
    IN  UNION {PLUGIN_DEFINITIONS[id].required_channels : id \in WithDeps(known)}

\* C18: for every selection, unknown IDs and the empty selection included,
\* required_channels is DIC together with the channels the known selected
\* plugins and their dependencies require, each once, in the order DIC,
\* DAPI, mCherry, GFP; it is never empty and always holds DIC.
C18_RequiredChannelsOfSelection ==
    Summarized =>
        LET rc == result.value.required_channels
        IN  /\ rc = SelectSeq(<<"DIC", "DAPI", "mCherry", "GFP">>,
                              LAMBDA c : c \in {"DIC"} \cup RequiredBySelection)
            /\ \A i, j \in 1..Len(rc) : rc[i] = rc[j] => i = j
            /\ rc # <<>>
            /\ \E k \in 1..Len(rc) : rc[k] = "DIC"

\* A selection of an unknown ID, the GFP-dot plugin and the DAPI nucleus
\* plugin: all four channels, in order.
C18_Witness ==
    /\ Summarized
    /\ call.selected_plugins = <<"Unknown", "GFPDot", "DAPI_NucleusIntensity">>
    /\ result.value.required_channels = <<"DIC", "DAPI", "mCherry", "GFP">>
    /\ result.value.selected_plugins = <<"GFPDot", "DAPI_NucleusIntensity">>

\* ---------------------------------------------- properties: error messages
Built == call.fn = "build_dv_error_messages"
StemSet == {"file_a", "file_b"}
SectionTitles == {InvalidFileTitle, LayerCountTitle, WavelengthTitle}
\* The lines that report files, and the title each of them stands under.
ItemLines(lines) == {j \in 1..Len(lines) : Len(lines[j]) > 0 /\ lines[j][1] = "- "}
TitleLines(lines) == {j \in 1..Len(lines) : Len(lines[j]) = 1 /\ lines[j][1] \in SectionTitles}
SectionAt(lines, j) ==
    LET above == {t \in TitleLines(lines) : t < j}
    IN  IF above = {} THEN "none"
        ELSE lines[CHOOSE t \in above : \A u \in above : u <= t][1]
\* How often the lines under a title name a file, and how many failures of
\* that name the precedence puts there.
Reported(lines, title, name) ==
    Cardinality({p \in ItemLines(lines) \X (1..8) :
                    /\ p[2] <= Len(lines[p[1]])
                    /\ lines[p[1]][p[2]] = name
                    /\ SectionAt(lines, p[1]) = title})
SectionOf(r, options) ==
    IF r.error_message # "" THEN InvalidFileTitle
    ELSE IF options.enforce_layer_count /\ r.layer_count.num /\ r.layer_count.val # 4
    THEN LayerCountTitle
    ELSE IF r.missing_channels # {} THEN WavelengthTitle
    ELSE "none"
Expected(failures, options, title, name) ==
    Cardinality({k \in 1..Len(failures) :
                    failures[k][1] = name /\ SectionOf(failures[k][2], options) = title})

Grouped(failures, options) ==
    {k \in 1..Len(failures) : SectionOf(failures[k][2], options) = WavelengthTitle}
MissingSets(failures, options) ==
    {failures[k][2].missing_channels : k \in Grouped(failures, options)}
FilesOf(line) == SelectSeq(line, LAMBDA piece : piece \in StemSet)
MissingTextOf(line) ==
    LET at == CHOOSE i \in 1..Len(line) : line[i] = ": missing "
    IN  SubSeq(line, at + 1, Len(line))
StemRank(name) == IF name = "file_a" THEN 1 ELSE 2
AllRequiredText == <<"all required wavelengths">>
\* The line names, in sorted order, the files that miss exactly the set, and
\* words the set as C20 says.
Describes(line, missing, failures, options) ==
    LET files == FilesOf(line)
        text == MissingTextOf(line)
    IN  /\ \A name \in StemSet :
               Cardinality({i \in 1..Len(files) : files[i] = name})
               = Cardinality({k \in Grouped(failures, options) :
                                 /\ failures[k][1] = name
                                 /\ failures[k][2].missing_channels = missing})
        /\ \A i \in 1..(Len(files) - 1) : StemRank(files[i]) <= StemRank(files[i + 1])
        /\ IF missing = RequiredOf(options) /\ Cardinality(RequiredOf(options)) > 1
           THEN text = AllRequiredText
           ELSE /\ text # AllRequiredText
                /\ {text[i] : i \in 1..Len(text)} \cap {"DIC", "DAPI", "mCherry", "GFP"} = missing

C29_CirclesAtBothRedCenters ==
    LET rc == RedCenters
        gc == GreenCenters
    IN  (Called(rc) /\ Far(rc)) =>
            /\ \A i \in {0, 1} : \E k \in 1..Len(circles) : circles[k] = rc[i]
            /\ LET n0 == Near(rc[0], gc)
                   n1 == Near(rc[1], gc)
               IN  cp.category_GFP_dot =
                       (IF n0 >= 1 /\ n1 >= 1 THEN 1
                        ELSE IF {n0, n1} = {1, 0} THEN 2
                        ELSE IF {n0, n1} = {2, 0} THEN 3
                        ELSE 4)

\* --------------------------------------- properties: legacy dot contours
\* A call of the find_contours that takes mcherry_dot_method, with a value
\* that selects the legacy method, that returned.
LegacyCall ==
    /\ call.fn = "find_contours"
    /\ call.package = "yeastweb"
    /\ call.method \in {"legacy", " Legacy"}
    /\ ~result.raised

\* C28: with the legacy method the dot contours are the contours the
\* general boundary shortlist selects: the (at most two) largest contours
\* traced in the binarization of the coarse mCherry derivative.
C28_LegacyDotsAreBoundaryShortlist ==
    LegacyCall =>
        result.value.dot_contours =
            [k \in 1..Len(result.value.bestContours) |->
                At(result.value.contours, result.value.bestContours[k])]

\* ------------------------------------------ properties: sliding rate limit
\* The attempts a key holds in the cache, and those the call found there
\* that lie within the last WindowSeconds seconds.
Recorded(c, key) == Get(c[key].state, "attempts", <<>>)
InWindow(key) ==
    LET attempts == Recorded(cache_before, key)
    IN  {attempts[i] : i \in {j \in 1..Len(attempts) : now - attempts[j] < WindowSeconds}}
CountInWindow(key) ==
    LET attempts == Recorded(cache_before, key)
    IN  Cardinality({j \in 1..Len(attempts) : now - attempts[j] < WindowSeconds})
Oldest(key) == CHOOSE ts \in InWindow(key) : \A other \in InWindow(key) : ts <= other
SlidingChecked == rl.fn = "check_rate_limit" /\ rl.mode = "sliding"

\* C26: in sliding mode no key ever holds more than max_attempts attempts;
\* check_rate_limit reports limited exactly when a key it was given has
\* max_attempts attempts within the last window_seconds, and then
\* retry_after is positive and is the time until the oldest of them leaves
\* the window (the longest such time when several keys are limited).
C26_SlidingWindow ==
    /\ \A key \in RateKeys : Len(Recorded(cache, key)) <= MaxAttempts
    /\ SlidingChecked =>
           LET full == {key \in {rl.keys[k] : k \in 1..Len(rl.keys)} :
                           CountInWindow(key) = MaxAttempts}
           IN  /\ rl.limited = (full # {})
               /\ rl.limited =>
                      /\ rl.retry_after > 0
                      /\ \E key \in full : rl.retry_after = Oldest(key) + WindowSeconds - now
                      /\ \A key \in full : rl.retry_after >= Oldest(key) + WindowSeconds - now

\* A check, one second after the first of three failures of the same key,
\* finds the key limited for one more second; a fourth failure was not
\* recorded.
C26_Witness ==
    /\ SlidingChecked
    /\ now = 2
    /\ Recorded(cache_before, "rl:login:ip") = <<1, 2, 2>>
    /\ rl.limited
    /\ rl.retry_after = 1

\* ------------------------------------------ properties: lockout rate limit
LockoutRegistered == rl.fn = "register_failure" /\ rl.mode = "lockout"
StoredLockedUntil(c, key) == Get(c[key].state, "locked_until", 0)
StoredLevel(c, key) == Get(c[key].state, "level", 0)
ScheduledSeconds(k) ==
    LockoutSchedule[(IF k - 1 < Len(LockoutSchedule) - 1 THEN k - 1
                     ELSE Len(LockoutSchedule) - 1) + 1]

\* C27: in lockout mode the k-th lock of a key lasts
\* lockout_schedule[min(k-1, len-1)] seconds; a failure registered while
\* the key is locked leaves its state unchanged; a failure registered while
\* it is not locked starts a lock exactly when it is the max_attempts-th
\* failure within window_seconds since the previous lock ended; the stored
\* level never exceeds len(lockout_schedule) - 1.
C27_LockoutEscalation ==
    /\ \A key \in RateKeys : StoredLevel(cache, key) <= Len(LockoutSchedule) - 1
    /\ \A key \in RateKeys :
           (hist[key].locks >= 1 /\ StoredLockedUntil(cache, key) > now) =>
               StoredLockedUntil(cache, key) - hist[key].started
               = ScheduledSeconds(hist[key].locks)
    /\ LockoutRegistered =>
           \A key \in {rl.keys[k] : k \in 1..Len(rl.keys)} :
               IF StoredLockedUntil(cache_before, key) > now
               THEN cache[key] = cache_before[key]
               ELSE (StoredLockedUntil(cache, key) > now) = (rl.counted[key] >= MaxAttempts)

\* ------------------------------------------------- properties: serve_media
MediaServed == call.fn = "serve_media" /\ result.value.status = 200
\* The user whose images the requester may read.
OwnerFor(requester) == IF requester = "anonymous" THEN "guest" ELSE requester

\* C21: a file is returned only when it lies inside the media directory of
\* a UUID whose UploadedImage is owned by the requesting user (the guest
\* user for an unauthenticated request); every other path, a path from an
\* owned UUID through '..' into the directory of another UUID included, is
\* answered 404.
C21_OnlyOwnedMedia ==
    MediaServed =>
        \E image \in UploadedImages :
            /\ image.user = OwnerFor(call.user)
            /\ Len(result.value.file) > 3
            /\ SubSeq(result.value.file, 1, 3) = <<"srv", "media", image.uuid>>

\* ------------------------------------------------ properties: display_cell
Deleted == cell_stats_before \ cell_stats
\* The requester of the last request is the owner of the image, or is
\* unauthenticated and the image is owned by the guest user.
Authorised(uuid) ==
    \E image \in SegmentedImages :
        /\ image.UUID = uuid
        /\ image.user_id = OwnerFor(display.user)

\* C24: display_cell deletes a CellStatistics row only for a requester who
\* is authorised for the image of the row, and a request answered 401
\* leaves the stored rows as they were.
C24_DeleteOnlyAuthorised ==
    display.status # 0 =>
        /\ \A row \in Deleted : Authorised(row[1])
        /\ display.status = 401 => cell_stats = cell_stats_before

\* ------------------------------------- properties: cancelling a running run
BothReturned == run.pc = "done" /\ canc.pc = "done"

\* C25: under every interleaving of a processing run with a cancel request
\* that arrives while the run is in progress, the run begins no file or
\* stage after it has observed the cancel flag, and once both have returned
\* the phase is "Cancelled" and the cancel flag is cleared.
C25_CancelSettles ==
    /\ run.begun_after = 0
    /\ run.observed => run.pc \in {"write_cancelled", "clear_cancelled", "done"}
    /\ BothReturned => progress = "Cancelled" /\ ~cancel_flag

\* ------------------------------------------- properties: password recovery
\* C22: whatever the requests of a session and their order, the password of
\* the account with e-mail E is changed only if a verification code mailed
\* to E was submitted correctly earlier in the session and E has been the
\* session's recovery e-mail ever since.
C22_ResetOnlyWithProof ==
    recovery.changed # "none" => recovery.with_proof

\* --------------------------------------------------------- properties: signup
\* C23: whatever the requests of a session and their order, an account with
\* e-mail E is created only if a verification code mailed to E was submitted
\* correctly earlier in the session and E has been the session's signup
\* e-mail ever since.
C23_CreateOnlyWithProof ==
    registration.changed # "none" => registration.with_proof
====
